---- MODULE Spec2Model ----
(***************************************************************************)
(* A model of resources/LocalizationParser.ps1, the static extractor of    *)
(* the PowerShell Localization extension, and of the caller in             *)
(* src/powershellExecutor.ts that parses its payload.                      *)
(*                                                                         *)
(* Text is a sequence of tokens: a quote, a dash, a sigil, or a word that  *)
(* holds none of them.  'X' is <<"'", "X", "'">>, -FileName is             *)
(* <<"-", "FileName">>, $fileName is <<"$", "fileName">>.                  *)
(***************************************************************************)
EXTENDS Integers, Sequences, FiniteSets, TLC

\* The longest module, in statements, that Init draws.
MaxNodes == 3

SQ == "'"
DQ == "\""

\* $null; no text of the model is this sequence.
Null == <<"<null>">>

----------------------------------------------------------------------------
(* String.Trim(char): every leading and trailing occurrence is removed.    *)

RECURSIVE TrimStart(_, _)
TrimStart(s, c) ==
  IF s # <<>> /\ Head(s) = c THEN TrimStart(Tail(s), c) ELSE s

RECURSIVE TrimEnd(_, _)
TrimEnd(s, c) ==
  IF s # <<>> /\ s[Len(s)] = c THEN TrimEnd(SubSeq(s, 1, Len(s) - 1), c) ELSE s

Trim(s, c) == TrimEnd(TrimStart(s, c), c)

\* .Trim('"').Trim("'")
TrimQuotes(s) == Trim(Trim(s, DQ), SQ)

----------------------------------------------------------------------------
(* Hashtables: functions from keys (text) to values.                       *)

EmptyHash == [k \in {} |-> Null]

HashSet(h, k, v) == [x \in DOMAIN h \cup {k} |-> IF x = k THEN v ELSE h[x]]

HashRemove(h, k) == [x \in DOMAIN h \ {k} |-> h[x]]

\* $h.Key or $h[Key] read: $null for an absent key
HashGet(h, k) == IF k \in DOMAIN h THEN h[k] ELSE Null

\* if ($value): $null and the empty string are false
Truthy(v) == v # Null /\ v # <<>>

FileNameKey == <<"FileName">>
BindingVariableKey == <<"BindingVariable">>
UICultureKey == <<"UICulture">>
BaseDirectoryKey == <<"BaseDirectory">>
ErrorActionKey == <<"ErrorAction">>

----------------------------------------------------------------------------
(* The syntax tree.  A command element or a hashtable value is a record    *)
(* of its Ast type, its extent text and, for a variable, its user path and *)
(* whether it is splatted (@name).                                         *)

CommandParameter(name) ==
  [kind |-> "CommandParameterAst", text |-> <<"-", name>>,
   userPath |-> "", splatted |-> FALSE]

StringConstant(text) ==
  [kind |-> "StringConstantExpressionAst", text |-> text,
   userPath |-> "", splatted |-> FALSE]

Variable(name) ==
  [kind |-> "VariableExpressionAst", text |-> <<"$", name>>,
   userPath |-> name, splatted |-> FALSE]

SplattedVariable(name) ==
  [kind |-> "VariableExpressionAst", text |-> <<"@", name>>,
   userPath |-> name, splatted |-> TRUE]

\* "Y$x": a string with an embedded variable is no StringConstantExpressionAst
ExpandableString(text) ==
  [kind |-> "ExpandableStringExpressionAst", text |-> text,
   userPath |-> "", splatted |-> FALSE]

\* @{ k1 = v1; k2 = v2 }: KeyValuePairs in declaration order
Hashtable(pairs) == [kind |-> "HashtableAst", text |-> <<>>, pairs |-> pairs]

\* the right-hand side of $x = 'X'
Scalar(text) == [kind |-> "StringConstantExpressionAst", text |-> text, pairs |-> <<>>]

KeyValue(key, value) == [Item1 |-> <<key>>, Item2 |-> value]

(* A statement of the module: an assignment $left = right or a command     *)
(* name elements...; line is its Extent.StartLineNumber.  scriptBlock is   *)
(* the sequence of the statements in the order FindAll meets them, which   *)
(* is the order of the source text.                                        *)

Assignment(left, right) ==
  [type |-> "AssignmentStatementAst", left |-> left, right |-> right,
   name |-> "", elements |-> <<>>, line |-> 0]

Command(name, elements) ==
  [type |-> "CommandAst", left |-> "", right |-> Scalar(<<>>),
   name |-> name, elements |-> elements, line |-> 0]

\* -eq on strings ignores case
ToLower(name) ==
  CASE name = "Import-LocalizedData" -> "import-localizeddata"
    [] name = "import-localizeddata" -> "import-localizeddata"
    [] name = "Write-Host" -> "write-host"
    [] OTHER -> name

StringEq(a, b) == ToLower(a) = ToLower(b)

\* scriptBlock.FindAll({ $Ast -is [CommandAst] -and $Ast.GetCommandName() -eq 'Import-LocalizedData' })
ImportLocalizedDataCalls(ast) ==
  SelectSeq(ast, LAMBDA n : n.type = "CommandAst" /\ StringEq(n.name, "Import-LocalizedData"))

----------------------------------------------------------------------------
(* Get-VariableFromScriptBlock                                             *)

Max(S) == CHOOSE x \in S : \A y \in S : y <= x

\* LastAssignment with Select-Object -First 1
FirstAssignment(ast, userPath, line) ==
  LET found == {i \in 1..Len(ast) :
                  /\ ast[i].type = "AssignmentStatementAst"
                  /\ ast[i].left = userPath
                  /\ ast[i].line <= line}
  IN IF found = {} THEN 0 ELSE CHOOSE i \in found : \A j \in found : i <= j

\* FindAll(assignments to the element's name that start on a line at or
\* before the element's) | Select-Object -Last 1; 0 when there is none
LastAssignment(ast, userPath, line) ==
  LET found == {i \in 1..Len(ast) :
                  /\ ast[i].type = "AssignmentStatementAst"
                  /\ ast[i].left = userPath
                  /\ ast[i].line <= line}
  IN IF found = {} THEN 0 ELSE Max(found)

(* The value the function returns: a hashtable for a splatted variable     *)
(* with an assignment, the element's own text (quotes trimmed) for any     *)
(* other variable with an assignment, nothing ($null) without one.  A      *)
(* variable that is the value of a hashtable entry is looked up from the   *)
(* line of the assignment that holds the hashtable.                        *)
RECURSIVE GetVariableFromScriptBlock(_, _, _)
RECURSIVE ReturnOfPairs(_, _, _, _)

\* ReturnOfPairs that keeps the quotes of a literal value
RECURSIVE ReturnOfPairsUntrimmed(_, _, _, _)
ReturnOfPairsUntrimmed(ast, pairs, line, return) ==
  IF pairs = <<>> THEN return
  ELSE LET kv == Head(pairs)
           value ==
             IF kv.Item2.kind = "VariableExpressionAst"
             THEN GetVariableFromScriptBlock(ast, kv.Item2, line).value
             ELSE kv.Item2.text
       IN ReturnOfPairsUntrimmed(ast, Tail(pairs), line, HashSet(return, kv.Item1, value))

ReturnOfPairs(ast, pairs, line, return) ==
  IF pairs = <<>> THEN return
  ELSE LET kv == Head(pairs)
           value ==
             IF kv.Item2.kind = "VariableExpressionAst"
             THEN GetVariableFromScriptBlock(ast, kv.Item2, line).value
             ELSE TrimQuotes(kv.Item2.text)
       IN ReturnOfPairs(ast, Tail(pairs), line, HashSet(return, kv.Item1, value))

GetVariableFromScriptBlock(ast, element, line) ==
  LET lastAssignment == LastAssignment(ast, element.userPath, line) IN
  IF lastAssignment # 0
  THEN IF element.splatted
       THEN [isHashtable |-> TRUE,
             value |-> ReturnOfPairs(ast, ast[lastAssignment].right.pairs,
                                     ast[lastAssignment].line, EmptyHash)]
       ELSE [isHashtable |-> FALSE, value |-> TrimQuotes(element.text)]
  ELSE [isHashtable |-> FALSE, value |-> Null]

----------------------------------------------------------------------------
(* The element loop of one call: $splat, $parameterName, and whether a     *)
(* statement threw.                                                        *)

\* $splat[$parameterName] = value: a null index throws
SetSplat(st, value) ==
  IF st.parameterName = Null
  THEN [st EXCEPT !.threw = TRUE]
  ELSE [st EXCEPT !.splat = HashSet(st.splat, st.parameterName, value)]

\* $splat += $variableValue: adding a key that is already there throws
AddSplat(st, hashtable) ==
  IF DOMAIN st.splat \cap DOMAIN hashtable # {}
  THEN [st EXCEPT !.threw = TRUE]
  ELSE [st EXCEPT !.splat = [k \in DOMAIN st.splat \cup DOMAIN hashtable |->
                               IF k \in DOMAIN hashtable THEN hashtable[k] ELSE st.splat[k]]]

SwitchElement(ast, element, line, st) ==
  CASE element.kind = "CommandParameterAst" ->
         [st EXCEPT !.parameterName = Trim(element.text, "-")]
    [] element.kind = "CommandExpressionAst" -> st
    [] element.kind = "ParameterAst" ->
         [st EXCEPT !.parameterName = Trim(element.text, "-")]
    [] element.kind = "StringConstantExpressionAst" ->
         SetSplat(st, TrimQuotes(element.text))
    [] element.kind = "VariableExpressionAst" ->
         LET variableValue == GetVariableFromScriptBlock(ast, element, line) IN
         IF variableValue.isHashtable
         THEN AddSplat(st, variableValue.value)
         ELSE SetSplat(st, variableValue.value)
    [] OTHER -> [st EXCEPT !.threw = TRUE]

RECURSIVE ForEachElement(_, _, _, _)
ForEachElement(ast, elements, line, st) ==
  IF elements = <<>> \/ st.threw THEN st
  ELSE ForEachElement(ast, Tail(elements), line,
                      SwitchElement(ast, Head(elements), line, st))

\* the ArgumentRecord of a call: $splat after the element loop
ArgumentRecord(ast, call) ==
  ForEachElement(ast, call.elements, call.line,
                 [splat |-> EmptyHash, parameterName |-> Null, threw |-> FALSE])

----------------------------------------------------------------------------
(* The rest of one iteration of foreach ($call in $importLocalizedDataCalls) *)

parentDirectory == "ModuleDir"

\* EffectiveUICulture without the IsNullOrEmpty test
EffectiveUICultureNotNull(culture) ==
  IF culture # Null THEN culture ELSE <<"en-US">>

\* EffectiveUICulture that always takes the default
EffectiveUICultureDefault(culture) == <<"en-US">>

\* if ($null -ne $UICulture -and -not [String]::IsNullOrEmpty($UICulture.Name)) ... else 'en-US'
EffectiveUICulture(culture) ==
  IF culture # Null /\ culture # <<>> THEN culture ELSE <<"en-US">>

\* the message table that the data file directory/culture/name declares,
\* which no other file declares
TableAt(path) == <<"table of", path[1][1], path[2][1], path[3][1]>>

\* the culture directory a table was read from
CultureOf(table) == <<table[3]>>

(* Import-LocalizedData @splat with ErrorAction Continue: the table of     *)
(* BaseDirectory/UICulture/FileName, or an error record and no output      *)
(* ($null) when there is no such file.  The file system holds data files   *)
(* in directories of full culture names only, so the cmdlet's search of    *)
(* the parent culture's directory finds nothing more.                      *)
ImportLocalizedData(splat, fileSystem) ==
  LET path == <<HashGet(splat, BaseDirectoryKey), HashGet(splat, UICultureKey),
                HashGet(splat, FileNameKey)>>
  IN IF path \in fileSystem THEN TableAt(path) ELSE Null

\* $h[k] = v only where the source call gave no k
HashSetIfAbsent(h, k, v) == IF k \in DOMAIN h THEN h ELSE HashSet(h, k, v)

\* OverrideArguments that keeps the values of the source call
OverrideArgumentsIfAbsent(unbound, culture) ==
  HashSet(HashSetIfAbsent(HashSetIfAbsent(unbound,
    UICultureKey, EffectiveUICulture(culture)),
    BaseDirectoryKey, <<parentDirectory>>),
    ErrorActionKey, <<"Continue">>)

\* Lines 137-146: $splat['UICulture'], $splat['BaseDirectory'] and
\* $splat['ErrorAction'] are assigned after the element loop
OverrideArguments(unbound, culture) ==
  HashSet(HashSet(HashSet(unbound,
    UICultureKey, EffectiveUICulture(culture)),
    BaseDirectoryKey, <<parentDirectory>>),
    ErrorActionKey, <<"Continue">>)

(* Lines 49-149 for one call, from the $result and $bindingVariable the    *)
(* earlier iterations left.  $bindingVariable is assigned only when the    *)
(* call has a binding name; $result[$null] = ... throws.                   *)
ProcessCall(ast, call, culture, fileSystem, before) ==
  LET resolved == ArgumentRecord(ast, call)
      hasBinding == Truthy(HashGet(resolved.splat, BindingVariableKey))
      binding == IF hasBinding THEN resolved.splat[BindingVariableKey]
                 ELSE before.bindingVariable
      unbound == IF hasBinding THEN HashRemove(resolved.splat, BindingVariableKey)
                 ELSE resolved.splat
      final == OverrideArguments(unbound, culture)
      data == ImportLocalizedData(final, fileSystem)
  IN IF resolved.threw
     THEN [before EXCEPT !.splat = resolved.splat, !.threw = TRUE]
     ELSE IF binding = Null
     THEN [before EXCEPT !.splat = final, !.bindingVariable = binding, !.threw = TRUE]
     ELSE [splat |-> final, bindingVariable |-> binding,
           result |-> HashSet(before.result, binding, data), threw |-> FALSE]

\* $result = @{} and an unset $bindingVariable
BeforeCalls == [splat |-> EmptyHash, bindingVariable |-> Null,
                result |-> EmptyHash, threw |-> FALSE]

----------------------------------------------------------------------------
(* What the process writes to standard output, and the caller's parse.     *)

\* $result | ConvertTo-Json, written by the host as one JSON document
ConvertToJson(value) == [kind |-> "json", value |-> value]

\* Write-Warning of a child process goes to its standard output
WarningLine(message) == [kind |-> "warning", value |-> message]

\* JSON.parse(output): the whole output must be one JSON document
JsonParse(output) ==
  IF Len(output) = 1 /\ output[1].kind = "json"
  THEN [ok |-> TRUE, value |-> output[1].value]
  ELSE [ok |-> FALSE, value |-> Null]

----------------------------------------------------------------------------
(* The working directory of the process.                                   *)

OriginalLocation == "Workspace"

\* Push-Location $parentDirectory
PushLocation(where, directory) ==
  [location |-> directory,
   locationStack |-> Append(where.locationStack, where.location)]

\* PopLocation that leaves the process where it is
PopLocationSkipped(where) == where

\* Pop-Location: back to the directory on top of the stack
PopLocation(where) ==
  IF where.locationStack = <<>> THEN where
  ELSE [location |-> where.locationStack[Len(where.locationStack)],
        locationStack |-> SubSeq(where.locationStack, 1, Len(where.locationStack) - 1)]

----------------------------------------------------------------------------
(* The whole script as a function of its inputs: the exit code and the     *)
(* standard output of a run.  path is $resolvedPath.Path, $null when       *)
(* Resolve-Path found no such file.                                        *)

ModuleFile == <<parentDirectory, "Module.psm1">>

RECURSIVE ForEachCallFrom(_, _, _, _, _)
ForEachCallFrom(ast, calls, culture, fileSystem, st) ==
  IF calls = <<>> \/ st.threw THEN st
  ELSE ForEachCallFrom(ast, Tail(calls), culture, fileSystem,
                       ProcessCall(ast, Head(calls), culture, fileSystem, st))

Extract(path, ast, culture, fileSystem) ==
  LET calls == ImportLocalizedDataCalls(ast)
      end == ForEachCallFrom(ast, calls, culture, fileSystem, BeforeCalls)
  IN IF path = Null
     THEN [exitCode |-> 0, stdout |-> <<WarningLine("File not found")>>]
     ELSE IF Len(calls) = 0
     THEN [exitCode |-> 0,
           stdout |-> <<WarningLine("No Import-LocalizedData calls found")>>]
     ELSE IF end.threw
     THEN [exitCode |-> 1, stdout |-> <<>>]
     ELSE [exitCode |-> 0, stdout |-> <<ConvertToJson(end.result)>>]

----------------------------------------------------------------------------
(* executeScript: the promise and the handlers of the child process.      *)

NoError == [code |-> 0, diagnostic |-> <<>>]

\* new Promise<string>(...) before any event
Pending == [state |-> "pending", output |-> <<>>, error |-> NoError]

\* OnClose that resolves whatever the exit code
OnCloseAlwaysResolves(code, output, errorOutput) ==
  [state |-> "resolved", output |-> output, error |-> NoError]

\* ps.on('close'): reject(new Error(`... exited with code ${code}: ${errorOutput}`))
\* when code !== 0, resolve(output) otherwise
OnClose(code, output, errorOutput) ==
  IF code # 0
  THEN [state |-> "rejected", output |-> <<>>,
        error |-> [code |-> code, diagnostic |-> errorOutput]]
  ELSE [state |-> "resolved", output |-> output, error |-> NoError]

\* ps.on('error'): reject(error); the process has no exit code
OnError(error) ==
  [state |-> "rejected", output |-> <<>>,
   error |-> [code |-> -1, diagnostic |-> <<error>>]]

----------------------------------------------------------------------------
(* executeScript: the arguments of the child process.  An argument is the  *)
(* sequence of the pieces of its text, so that startsWith is a comparison  *)
(* of leading pieces.                                                      *)

\* 'NoLogo' -> '-NoLogo'
Flag(name) == <<"-", name>>

\* path.join(__dirname, '..', 'resources', 'LocalizationParser.ps1')
ScriptPath == <<"resources/", "LocalizationParser.ps1">>

\* const args = ['-ModuleFile', modulePath]
ParserArgs(modulePath) == <<Flag("ModuleFile"), modulePath>>

AllowedArgPrefixes ==
  { Flag("Command"), Flag("File"), Flag("ModuleFile"), Flag("Path"), Flag("Name"),
    Flag("Filter"), Flag("Include"), Flag("Exclude"), Flag("Recurse"), Flag("Force"),
    Flag("Confirm"), Flag("WhatIf"), Flag("Verbose"), Flag("Debug") }

\* arg.startsWith(prefix)
StartsWith(arg, prefix) ==
  Len(prefix) <= Len(arg) /\ SubSeq(arg, 1, Len(prefix)) = prefix

\* the predicate of args.filter
IsAllowedArg(arg) ==
  \/ ~StartsWith(arg, <<"-">>)
  \/ \E prefix \in AllowedArgPrefixes : StartsWith(arg, prefix)

\* FilteredArgs that lets every argument through
FilteredArgsUnfiltered(args) == args

\* const filteredArgs = args.filter(...)
FilteredArgs(args) == SelectSeq(args, IsAllowedArg)

FixedFlags ==
  <<Flag("NoLogo"), Flag("NoProfile"), Flag("NonInteractive"),
    Flag("OutputFormat"), <<"Text">>>>

\* pwshArguments: the fixed flags, -File scriptPath when scriptPath is not
\* the empty string, the filtered arguments
PwshArguments(scriptPath, args) ==
  FixedFlags
    \o (IF scriptPath # <<>> THEN <<Flag("File"), scriptPath>> ELSE <<>>)
    \o FilteredArgs(args)

\* The most calls of detectPowerShellExecutable under way at once.
MaxDetections == 2

\* The most elements of args.
MaxArgs == 2

\* const executablesToTry = ['pwsh', 'powershell'], tried the other way round
ExecutablesToTryReversed == <<"powershell", "pwsh">>

\* const executablesToTry = ['pwsh', 'powershell']
ExecutablesToTry == <<"pwsh", "powershell">>

\* throw new Error('No PowerShell executable found. ...')
NoExecutableFound == "No PowerShell executable found"

(* spawn(executable, pwshArguments, { shell: true }): the command line is  *)
(* the executable and the arguments joined by spaces, unquoted, and the    *)
(* shell splits it again at white space.  An argument that holds a space   *)
(* reaches the process as several arguments, an empty one not at all.      *)
RECURSIVE WordsOf(_, _)
WordsOf(arg, word) ==
  IF arg = <<>> THEN (IF word = <<>> THEN <<>> ELSE <<word>>)
  ELSE IF Head(arg) = " "
  THEN (IF word = <<>> THEN <<>> ELSE <<word>>) \o WordsOf(Tail(arg), <<>>)
  ELSE WordsOf(Tail(arg), Append(word, Head(arg)))

RECURSIVE ShellWords(_)
ShellWords(arguments) ==
  IF arguments = <<>> THEN <<>>
  ELSE WordsOf(Head(arguments), <<>>) \o ShellWords(Tail(arguments))

\* the value the script binds to the named parameter, $null when the
\* parameter is not on the command line
RECURSIVE BoundParameter(_, _)
BoundParameter(argv, name) ==
  IF Len(argv) < 2 THEN Null
  ELSE IF argv[1] = Flag(name) THEN argv[2]
  ELSE BoundParameter(Tail(argv), name)

----------------------------------------------------------------------------
(* The logger.                                                             *)

\* The most lines of the output channel.
MaxLines == 3

LogLevels == {"error", "warn", "info", "debug"}

\* private static readonly LOG_LEVELS
LOG_LEVELS == [error |-> 0, warn |-> 1, info |-> 2, debug |-> 3]

\* ShouldLog with < for <=
ShouldLogBelow(messageLevel, currentLevel) ==
  LOG_LEVELS[messageLevel] < LOG_LEVELS[currentLevel]

\* shouldLog(messageLevel), currentLevel being getLogLevel()
ShouldLog(messageLevel, currentLevel) ==
  LOG_LEVELS[messageLevel] <= LOG_LEVELS[currentLevel]

\* the lines that error, warn, info and debug append
LinesOf(level, stack) ==
  CASE level = "error" -> IF stack THEN <<"[ERROR]", "Stack trace">> ELSE <<"[ERROR]">>
    [] level = "warn" -> <<"[WARN]">>
    [] level = "info" -> <<"[INFO]">>
    [] level = "debug" -> <<"[DEBUG]">>

----------------------------------------------------------------------------
(* The decoration provider of the editor: its cache, its debounce timer    *)
(* and the calls of getLocalizationData that are under way.                *)

\* The most calls of getLocalizationData under way at once.
MaxRunning == 1

\* The most edits of the data files.
MaxRevision == 2

\* path.dirname(filePath) of a document of the module: the cache key
DocumentDirectory == parentDirectory

\* uri.fsPath of the module file, as the watcher reports it
ModuleFilePath == "ModuleDir/Module.psm1"

\* new Map()
EmptyCache == [k \in {} |-> [value |-> EmptyHash, revision |-> 0]]

\* ClearCache that keeps the entries
ClearCacheKeeps(cache) == cache

\* localizationCache.clear()
ClearCache(cache) == EmptyCache

\* localizationCache.delete(filePath)
ClearCacheForFile(cache, filePath) ==
  [k \in DOMAIN cache \ {filePath} |-> cache[k]]

\* localizationCache.set(cacheKey, localizationData)
CacheSet(cache, key, entry) ==
  [k \in DOMAIN cache \cup {key} |-> IF k = key THEN entry ELSE cache[k]]

\* REGEX_PATTERNS.IMPORT_LOCALIZED_DATA.test(text), the pattern being
\* /Import-LocalizedData/i
HasImportLocalizedData(ast) ==
  \E i \in 1..Len(ast) :
    \/ StringEq(ast[i].name, "Import-LocalizedData")
    \/ \E e \in 1..Len(ast[i].elements) :
         \E w \in 1..Len(ast[i].elements[e].text) :
           StringEq(ast[i].elements[e].text[w], "Import-LocalizedData")

\* content.includes('Import-LocalizedData') on the text of the module
IncludesImportLocalizedData(ast) ==
  \E i \in 1..Len(ast) :
    \/ ast[i].name = "Import-LocalizedData"
    \/ \E e \in 1..Len(ast[i].elements) :
         \E w \in 1..Len(ast[i].elements[e].text) :
           ast[i].elements[e].text[w] = "Import-LocalizedData"

\* findModuleForFile: the first .psm1 of the workspace whose text includes
\* Import-LocalizedData, null when there is none
FindModuleForFile(path, ast) ==
  IF path # Null /\ IncludesImportLocalizedData(ast) THEN path ELSE Null

(* parseLocalizationData(modulePath) as a function of the files: the       *)
(* script is started with -ModuleFile alone, the promise of executeScript  *)
(* settles on close, and JSON.parse gives the object or throws.            *)
ParsedOrThrown(document) ==
  IF document.ok THEN [ok |-> TRUE, value |-> document.value]
  ELSE [ok |-> FALSE, value |-> EmptyHash]

\* Lines 29-43 of the executor: await executeScript, then JSON.parse; a
\* rejection or a parse error is logged and thrown again
AwaitAndParse(settled) ==
  IF settled.state = "resolved" THEN ParsedOrThrown(JsonParse(settled.output))
  ELSE [ok |-> FALSE, value |-> EmptyHash]

SettledRun(run) == AwaitAndParse(OnClose(run.exitCode, run.stdout, <<>>))

\* the command line of the parser process as the process receives it
ParserArgv(modulePath) == ShellWords(PwshArguments(ScriptPath, ParserArgs(modulePath)))

\* the script with its parameters bound from the command line
RunWith(argv, ast, files) ==
  SettledRun(Extract(BoundParameter(argv, "ModuleFile"), ast,
                     BoundParameter(argv, "UICulture"), files))

ParseLocalizationDataOf(modulePath, ast, files) ==
  RunWith(ParserArgv(modulePath), ast, files)

\* a call of getLocalizationData that is not under way
IdleRun ==
  [stage |-> "idle", ok |-> FALSE, value |-> EmptyHash, revision |-> 0,
   culture |-> <<>>, argv |-> <<>>]

NoDecorations == [kind |-> "empty", revision |-> 0]

\* DecorationsFor that decorates from whatever it is given
DecorationsForAny(isNull, value, revision) ==
  [kind |-> "hints", revision |-> revision]

\* Lines 722-728: setDecorations([]) for null or an object without keys,
\* setDecorations(createDecorations(document, localizationData)) otherwise
DecorationsFor(isNull, value, revision) ==
  IF isNull \/ DOMAIN value = {}
  THEN NoDecorations
  ELSE [kind |-> "hints", revision |-> revision]

\* config.update('uiCulture', ...) that is not under way
NotWriting == [state |-> "none", culture |-> <<>>]

----------------------------------------------------------------------------
(* The inputs: a module, the data files under its directory, -UICulture.   *)

Q(word) == <<SQ, word, SQ>>
QQ(word) == <<DQ, word, DQ>>

\* Import-LocalizedData -FileName 'X' -BindingVariable 'V'
DirectCall ==
  Command("Import-LocalizedData",
          <<CommandParameter("FileName"), StringConstant(Q("X")),
            CommandParameter("BindingVariable"), StringConstant(Q("V"))>>)

\* the statements of the modules of Spec: calls, well-formed and not
StatementPool ==
  { DirectCall,
    \* import-localizeddata -FileName "Y" -BindingVariable W
    Command("import-localizeddata",
            <<CommandParameter("FileName"), StringConstant(QQ("Y")),
              CommandParameter("BindingVariable"), StringConstant(<<"W">>)>>),
    \* Import-LocalizedData -FileName "Y"
    Command("Import-LocalizedData",
            <<CommandParameter("FileName"), StringConstant(QQ("Y"))>>),
    \* Import-LocalizedData -FileName "Y$x" -BindingVariable 'W'
    Command("Import-LocalizedData",
            <<CommandParameter("FileName"), ExpandableString(<<DQ, "Y", "$", "x", DQ>>),
              CommandParameter("BindingVariable"), StringConstant(Q("W"))>>),
    \* Write-Host 'X'
    Command("Write-Host", <<StringConstant(Q("X"))>>) }

\* the statements of the modules of SpecResolve: variables and bundles
ResolvePool ==
  { DirectCall,
    \* $splat = @{ FileName = "X"; BindingVariable = 'V' }
    Assignment("splat", Hashtable(<<KeyValue("FileName", StringConstant(QQ("X"))),
                                    KeyValue("BindingVariable", StringConstant(Q("V")))>>)),
    \* $splat = @{ BindingVariable = "W"; FileName = $fileName }
    Assignment("splat", Hashtable(<<KeyValue("BindingVariable", StringConstant(QQ("W"))),
                                    KeyValue("FileName", Variable("fileName"))>>)),
    \* $fileName = 'Y'
    Assignment("fileName", Scalar(Q("Y"))),
    \* Import-LocalizedData @splat
    Command("Import-LocalizedData", <<SplattedVariable("splat")>>),
    \* Import-LocalizedData -FileName $fileName -BindingVariable W
    Command("Import-LocalizedData",
            <<CommandParameter("FileName"), Variable("fileName"),
              CommandParameter("BindingVariable"), StringConstant(<<"W">>)>>) }

\* the statements of the modules of SpecLiteral: literals in quotes of both
\* styles, and literals whose text has quote characters inside the outer pair
LiteralPool ==
  { DirectCall,
    \* Import-LocalizedData -FileName "'X'" -BindingVariable "V"
    Command("Import-LocalizedData",
            <<CommandParameter("FileName"), StringConstant(<<DQ, SQ, "X", SQ, DQ>>),
              CommandParameter("BindingVariable"), StringConstant(QQ("V"))>>),
    \* $splat = @{ FileName = """Y"""; BindingVariable = 'W' }
    Assignment("splat",
               Hashtable(<<KeyValue("FileName", StringConstant(<<DQ, DQ, DQ, "Y", DQ, DQ, DQ>>)),
                           KeyValue("BindingVariable", StringConstant(Q("W")))>>)),
    \* Import-LocalizedData @splat
    Command("Import-LocalizedData", <<SplattedVariable("splat")>>) }

\* the statements of the modules of SpecOverride: calls that give a base
\* directory and a locale of their own, by literal, variable and bundle
OverridePool ==
  { \* Import-LocalizedData -FileName 'X' -BindingVariable 'V' -BaseDirectory 'Other' -UICulture 'fr-FR'
    Command("Import-LocalizedData",
            <<CommandParameter("FileName"), StringConstant(Q("X")),
              CommandParameter("BindingVariable"), StringConstant(Q("V")),
              CommandParameter("BaseDirectory"), StringConstant(Q("Other")),
              CommandParameter("UICulture"), StringConstant(Q("fr-FR"))>>),
    \* $dir = 'Other'
    Assignment("dir", Scalar(Q("Other"))),
    \* Import-LocalizedData -FileName 'X' -BindingVariable 'V' -BaseDirectory $dir
    Command("Import-LocalizedData",
            <<CommandParameter("FileName"), StringConstant(Q("X")),
              CommandParameter("BindingVariable"), StringConstant(Q("V")),
              CommandParameter("BaseDirectory"), Variable("dir")>>),
    \* $splat = @{ FileName = 'Y'; BindingVariable = 'W'; BaseDirectory = 'Other'; UICulture = "en-US" }
    Assignment("splat",
               Hashtable(<<KeyValue("FileName", StringConstant(Q("Y"))),
                           KeyValue("BindingVariable", StringConstant(Q("W"))),
                           KeyValue("BaseDirectory", StringConstant(Q("Other"))),
                           KeyValue("UICulture", StringConstant(QQ("en-US")))>>)),
    \* Import-LocalizedData @splat
    Command("Import-LocalizedData", <<SplattedVariable("splat")>>) }

\* every statement on a line of its own, or two statements to a line
LineSchemes == { [i \in 1..(MaxNodes + 1) |-> i],
                 [i \in 1..(MaxNodes + 1) |-> (i + 1) \div 2] }

Modules(pool) ==
  UNION { { [i \in 1..n |-> [statements[i] EXCEPT !.line = lineOf[i]]] :
              statements \in [1..n -> pool], lineOf \in LineSchemes } :
          n \in 0..MaxNodes }

Cultures == {<<"en-US">>, <<"fr-FR">>}
FileNames == {<<"X">>, <<"Y">>}
DataFiles == {<<<<parentDirectory>>, culture, fileName>> :
                culture \in Cultures, fileName \in FileNames}

\* -UICulture: absent, the empty (invariant) culture, or a named culture
UICultureArguments == {Null, <<>>} \cup Cultures

----------------------------------------------------------------------------
VARIABLES
  scriptBlock,      \* the parsed module
  fileSystem,       \* the data files that exist
  UICulture,        \* the -UICulture argument
  resolvedPath,     \* $resolvedPath.Path, $null when the module file is missing
  pc,               \* "start", "foreach", "exited"; "failed" when never started
  callIndex,        \* the next call of $importLocalizedDataCalls
  splat,            \* $splat of the last call processed
  bindingVariable,  \* $bindingVariable
  result,           \* $result
  location,         \* the working directory of the process
  locationStack,    \* the directories Push-Location saved
  stdout,           \* what the process has written to standard output
  stderr,           \* what the process has written to standard error
  exitCode,         \* the exit code of the process, -1 while it runs
  output,           \* executeScript: standard output received so far
  errorOutput,      \* executeScript: standard error received so far
  executeScript,    \* the promise executeScript returned
  caller,           \* parseLocalizationData: "awaiting", "resolved", "rejected"
  parsed,           \* the object parseLocalizationData returns
  uiCulture,        \* the setting powershellLocalization.uiCulture
  writing,          \* the config.update of handleSetUICulture under way
  localizationCache,\* LocalizationDecorationProvider.localizationCache
  timeout,          \* whether the debounce timer is set
  decorations,      \* what the active editor shows
  running,          \* the calls of getLocalizationData under way
  revision,         \* how many times the data files were edited
  events,           \* the watcher events not yet handled: "psd1", "psm1"
  logged,           \* the last warning or error written to the log
  shown,            \* the last message shown to the user
  powershellExecutable, \* PowerShellExecutor.powershellExecutable, "" for null
  detections,       \* the calls of detectPowerShellExecutable under way
  scriptPath,       \* executeScript: its scriptPath argument
  args,             \* executeScript: its args argument
  spawned,          \* the last process executeScript started
  enableDecorations,\* the setting powershellLocalization.enableDecorations
  logLevel,         \* the setting powershellLocalization.logLevel
  outputChannel,    \* the lines appended to the output channel
  logCall,          \* the last call of Logger.error, warn, info or debug
  errors,           \* $errors: the diagnostics of Parser::ParseFile
  clock,            \* the time, in milliseconds since activate()
  timers,           \* the timers setTimeout started that are still pending
  timeoutId,        \* LocalizationDecorationProvider.timeout, 0 for undefined
  triggerLog,       \* the times of the calls of triggerUpdateDecorations
  runLog,           \* the times the timer callback called updateDecorations
  available,        \* whether a PowerShell can be started on this system
  workspace,        \* the texts of the .psm1 files of the workspace
  initialize,       \* ExtensionManager.initialize: where it is, what it found
  subscriptions,    \* what ExtensionManager has registered and not disposed
  listeners,        \* LocalizationDecorationProvider.disposables, by event
  disposed,         \* whether LocalizationDecorationProvider.dispose has run
  inlineCache,      \* LocalizationInlineValuesProvider.localizationCache
  inlineCall,       \* the last call of its getLocalizationData
  document,         \* the variable tokens of the document, one to a line
  localizationData, \* the object the providers annotate from, keys in order
  hints             \* what createDecorations and extractInlineValues returned

inputVars == <<scriptBlock, fileSystem, UICulture, resolvedPath>>
scriptVars == <<pc, callIndex, splat, bindingVariable, result, location, locationStack>>
streamVars == <<stdout, stderr, exitCode>>
executorVars == <<output, errorOutput, executeScript, caller, parsed>>

editorVars == <<uiCulture, writing, localizationCache, timeout, decorations,
                running, revision, events, logged, shown>>

detectVars == <<powershellExecutable, detections>>
spawnVars == <<scriptPath, args, spawned>>
settingVars == <<enableDecorations>>
logVars == <<logLevel, outputChannel, logCall>>
timerVars == <<clock, timers, timeoutId, triggerLog, runLog>>
baseVars == <<inputVars, scriptVars, streamVars, executorVars, editorVars,
              detectVars, spawnVars, settingVars, logVars, errors>>
managerVars == <<available, workspace, initialize, subscriptions, listeners, disposed>>
inlineVars == <<inlineCache, inlineCall>>
hintVars == <<document, localizationData, hints>>
lifeVars == <<timerVars, managerVars, inlineVars, hintVars>>
hostVars == <<detectVars, spawnVars, settingVars, logVars, errors, lifeVars>>

vars == <<inputVars, scriptVars, streamVars, executorVars, editorVars, hostVars>>

importLocalizedDataCalls == ImportLocalizedDataCalls(scriptBlock)

\* the process before its first statement, the promise before any event
ProcessInit ==
  /\ pc = "start"
  /\ callIndex = 0
  /\ splat = EmptyHash
  /\ bindingVariable = Null
  /\ result = EmptyHash
  /\ location = OriginalLocation
  /\ locationStack = <<>>
  /\ stdout = <<>>
  /\ stderr = <<>>
  /\ exitCode = -1
  /\ output = <<>>
  /\ errorOutput = <<>>
  /\ executeScript = Pending
  /\ caller = "awaiting"
  /\ parsed = Null

\* the provider after activate(): an empty cache and the timer set
EditorInit ==
  /\ uiCulture = <<"en-US">>
  /\ writing = NotWriting
  /\ localizationCache = EmptyCache
  /\ timeout = TRUE
  /\ decorations = [kind |-> "unset", revision |-> 0]
  /\ running = [i \in 1..MaxRunning |-> IdleRun]
  /\ revision = 0
  /\ events = {}
  /\ logged = ""
  /\ shown = ""

\* a call of detectPowerShellExecutable that is not under way
IdleDetection == [stage |-> "idle", next |-> 1, tests |-> <<>>, result |-> ""]

NotSpawned == [executable |-> "", pwshArguments |-> <<>>, argv |-> <<>>]

\* no call of the logger yet
NoLogCall == [level |-> "", configured |-> "", lines |-> 0]

\* the logger with the default level and nothing written
LoggerInit ==
  /\ logLevel = "info"
  /\ outputChannel = <<>>
  /\ logCall = NoLogCall

\* the provider after its constructor: no timer was ever started
TimerInit ==
  /\ clock = 0
  /\ timers = {}
  /\ timeoutId = 0
  /\ triggerLog = <<>>
  /\ runLog = <<>>

\* neither createDecorations nor extractInlineValues has been called
NoHints == [decorations |-> <<>>, inlineValues |-> <<>>,
            created |-> FALSE, extracted |-> FALSE]

\* an empty document and no data to annotate from
HintInit ==
  /\ document = <<>>
  /\ localizationData = <<>>
  /\ hints = NoHints

\* no call of the inline values provider yet
NoInlineCall == [n |-> 0, cached |-> FALSE, ran |-> FALSE, ok |-> FALSE]

\* the inline values provider after its constructor
InlineInit ==
  /\ inlineCache = [k \in {} |-> [value |-> [h \in {} |-> <<"<null>">>], revision |-> 0]]
  /\ inlineCall = NoInlineCall

\* what setupConfigurationListener, setupFileSystemWatchers and
\* registerCommands register
AllSubscriptions == {"configurationListener", "fileSystemWatchers", "commands"}

NoListeners == [activeTextEditor |-> 0, textDocument |-> 0]

\* the extension after an initialize that found a PowerShell and a module
ManagerInit ==
  /\ available = TRUE
  /\ workspace = {<<[DirectCall EXCEPT !.line = 1]>>}
  /\ initialize = [stage |-> "done", isPowerShellAvailable |-> TRUE,
                   hasModulesWithLocalization |-> TRUE]
  /\ subscriptions = AllSubscriptions
  /\ listeners = [activeTextEditor |-> 1, textDocument |-> 1]
  /\ disposed = FALSE

\* the executor after its constructor, before any call of executeScript
HostInit ==
  /\ powershellExecutable = ""
  /\ detections = [d \in 1..MaxDetections |-> IdleDetection]
  /\ scriptPath = ScriptPath
  /\ args = <<>>
  /\ spawned = NotSpawned
  /\ enableDecorations = TRUE
  /\ LoggerInit
  /\ errors = <<>>
  /\ TimerInit
  /\ ManagerInit
  /\ InlineInit
  /\ HintInit

\* a module file that does not exist has no statements to draw
InitWith(pool) ==
  /\ resolvedPath \in {Null, ModuleFile}
  /\ scriptBlock \in IF resolvedPath = Null THEN {<<>>} ELSE Modules(pool)
  /\ fileSystem \in SUBSET DataFiles
  /\ UICulture \in UICultureArguments
  /\ ProcessInit
  /\ EditorInit
  /\ HostInit

(* ps.on('error'): the process could not be started; it runs no line of    *)
(* the script and has no exit code.                                        *)
SpawnError ==
  /\ pc = "start"
  /\ executeScript.state = "pending"
  /\ pc' = "failed"
  /\ executeScript' = OnError("spawn failed")
  /\ UNCHANGED <<hostVars, editorVars, inputVars, callIndex, splat, bindingVariable, result, location,
                 locationStack, streamVars, output, errorOutput, caller, parsed>>

\* FileNotFound with Resolve-Path -ErrorAction Stop: the script throws
FileNotFoundThrows ==
  /\ pc = "start"
  /\ resolvedPath = Null
  /\ stderr' = <<"Resolve-Path: Cannot find path">>
  /\ exitCode' = 1
  /\ pc' = "exited"
  /\ UNCHANGED <<hostVars, editorVars, inputVars, callIndex, splat, bindingVariable, result, location,
                 locationStack, stdout, executorVars>>

(* Lines 12-16: Resolve-Path writes an error that does not terminate the   *)
(* script, $resolvedPath.Path is $null, the warning is written and         *)
(* continue, outside of any loop, ends the script quietly.                 *)
FileNotFound ==
  /\ pc = "start"
  /\ resolvedPath = Null
  /\ stderr' = <<"Resolve-Path: Cannot find path">>
  /\ stdout' = <<WarningLine("File not found")>>
  /\ exitCode' = 0
  /\ pc' = "exited"
  /\ UNCHANGED <<hostVars, editorVars, inputVars, callIndex, splat, bindingVariable, result, location,
                 locationStack, executorVars>>

(* Lines 17-46: parse, find the calls; with none, warn and return @{}, an  *)
(* empty hashtable that the host renders as no text, and exit 0; with some *)
(* Push-Location $parentDirectory and enter the loop.                      *)
FindCalls ==
  /\ pc = "start"
  /\ resolvedPath # Null
  /\ IF Len(importLocalizedDataCalls) = 0
     THEN /\ stdout' = <<WarningLine("No Import-LocalizedData calls found")>>
          /\ exitCode' = 0
          /\ pc' = "exited"
          /\ UNCHANGED <<callIndex, location, locationStack>>
     ELSE /\ pc' = "foreach"
          /\ callIndex' = 1
          /\ LET pushed == PushLocation([location |-> location,
                                         locationStack |-> locationStack],
                                        parentDirectory)
             IN /\ location' = pushed.location
                /\ locationStack' = pushed.locationStack
          /\ UNCHANGED <<stdout, exitCode>>
  /\ UNCHANGED <<hostVars, editorVars, inputVars, splat, bindingVariable, result, stderr, executorVars>>

(* Lines 47-150 for the next call.  Import-LocalizedData writes an error   *)
(* and goes on when the data file is missing; a throw runs catch           *)
(* (Write-Error, throw) and finally (Pop-Location), and the process exits  *)
(* 1 having written no output.                                             *)
ForEachCall ==
  /\ pc = "foreach"
  /\ callIndex <= Len(importLocalizedDataCalls)
  /\ LET after == ProcessCall(scriptBlock, importLocalizedDataCalls[callIndex],
                              UICulture, fileSystem,
                              [splat |-> splat, bindingVariable |-> bindingVariable,
                               result |-> result, threw |-> FALSE])
         popped == PopLocation([location |-> location,
                                locationStack |-> locationStack])
     IN /\ splat' = after.splat
        /\ bindingVariable' = after.bindingVariable
        /\ result' = after.result
        /\ IF after.threw
           THEN /\ exitCode' = 1
                /\ pc' = "exited"
                /\ stderr' = Append(stderr, "Write-Error: Error processing")
                /\ location' = popped.location
                /\ locationStack' = popped.locationStack
                /\ UNCHANGED callIndex
           ELSE /\ callIndex' = callIndex + 1
                /\ stderr' = IF after.result[after.bindingVariable] = Null
                             THEN Append(stderr, "Import-LocalizedData: Cannot find the data file")
                             ELSE stderr
                /\ UNCHANGED <<exitCode, pc, location, locationStack>>
  /\ UNCHANGED <<hostVars, editorVars, inputVars, stdout, executorVars>>

\* Line 151 and finally: return $result | ConvertTo-Json, Pop-Location
ReturnResult ==
  /\ pc = "foreach"
  /\ callIndex > Len(importLocalizedDataCalls)
  /\ stdout' = <<ConvertToJson(result)>>
  /\ exitCode' = 0
  /\ pc' = "exited"
  /\ LET popped == PopLocation([location |-> location,
                                locationStack |-> locationStack])
     IN /\ location' = popped.location
        /\ locationStack' = popped.locationStack
  /\ UNCHANGED <<hostVars, editorVars, inputVars, callIndex, splat, bindingVariable, result, stderr,
                 executorVars>>

(* ps.stdout.on('data'): output += data.  The handlers only append, so the *)
(* model delivers what the process wrote once it has exited.               *)
StdoutData ==
  /\ pc = "exited"
  /\ Len(output) < Len(stdout)
  /\ output' = output \o SubSeq(stdout, Len(output) + 1, Len(stdout))
  /\ UNCHANGED <<hostVars, editorVars, inputVars, scriptVars, streamVars, errorOutput, executeScript,
                 caller, parsed>>

\* ps.stderr.on('data'): errorOutput += errorText
StderrData ==
  /\ pc = "exited"
  /\ Len(errorOutput) < Len(stderr)
  /\ errorOutput' = errorOutput \o SubSeq(stderr, Len(errorOutput) + 1, Len(stderr))
  /\ UNCHANGED <<hostVars, editorVars, inputVars, scriptVars, streamVars, output, executeScript,
                 caller, parsed>>

(* ps.on('close'): emitted once the process has ended and its streams are  *)
(* closed, so after every data event.                                      *)
Close ==
  /\ pc = "exited"
  /\ Len(output) = Len(stdout)
  /\ Len(errorOutput) = Len(stderr)
  /\ executeScript.state = "pending"
  /\ executeScript' = OnClose(exitCode, output, errorOutput)
  /\ UNCHANGED <<hostVars, editorVars, inputVars, scriptVars, streamVars, output, errorOutput,
                 caller, parsed>>

(* parseLocalizationData after await executeScript: a rejection is         *)
(* rethrown; JSON.parse of the output either gives the object returned or  *)
(* throws, and the error is rethrown.                                      *)
ParseLocalizationData ==
  /\ executeScript.state # "pending"
  /\ caller = "awaiting"
  /\ IF executeScript.state = "rejected"
     THEN /\ caller' = "rejected"
          /\ UNCHANGED parsed
     ELSE IF JsonParse(executeScript.output).ok
     THEN /\ caller' = "resolved"
          /\ parsed' = JsonParse(executeScript.output).value
     ELSE /\ caller' = "rejected"
          /\ UNCHANGED parsed
  /\ UNCHANGED <<hostVars, editorVars, inputVars, scriptVars, streamVars, output, errorOutput,
                 executeScript>>

Next ==
  \/ SpawnError
  \/ FileNotFound
  \/ FindCalls
  \/ ForEachCall
  \/ ReturnResult
  \/ StdoutData
  \/ StderrData
  \/ Close
  \/ ParseLocalizationData

Init == InitWith(StatementPool)

Spec == Init /\ [][Next]_vars

InitResolve == InitWith(ResolvePool)

SpecResolve == InitResolve /\ [][Next]_vars

InitLiteral == InitWith(LiteralPool)

SpecLiteral == InitLiteral /\ [][Next]_vars

InitOverride == InitWith(OverridePool)

SpecOverride == InitOverride /\ [][Next]_vars

\* the statements of the modules of SpecSplat: a bundle expanded into a call
\* that has parameters of its own, one of them among the keys of the bundle
SplatPool ==
  { \* $splat = @{ FileName = "X"; BindingVariable = 'V' }
    Assignment("splat", Hashtable(<<KeyValue("FileName", StringConstant(QQ("X"))),
                                    KeyValue("BindingVariable", StringConstant(Q("V")))>>)),
    \* Import-LocalizedData -FileName 'Y' @splat
    Command("Import-LocalizedData",
            <<CommandParameter("FileName"), StringConstant(Q("Y")),
              SplattedVariable("splat")>>),
    \* Import-LocalizedData -UICulture 'fr-FR' @splat
    Command("Import-LocalizedData",
            <<CommandParameter("UICulture"), StringConstant(Q("fr-FR")),
              SplattedVariable("splat")>>),
    \* Import-LocalizedData @splat -FileName 'Y'
    Command("Import-LocalizedData",
            <<SplattedVariable("splat"),
              CommandParameter("FileName"), StringConstant(Q("Y"))>>) }

InitSplat == InitWith(SplatPool)

SpecSplat == InitSplat /\ [][Next]_vars

\* the statements of the modules of SpecPositional: calls whose first
\* argument has no parameter marker before it
PositionalPool ==
  { DirectCall,
    \* Import-LocalizedData 'W' -FileName 'Y'
    Command("Import-LocalizedData",
            <<StringConstant(Q("W")),
              CommandParameter("FileName"), StringConstant(Q("Y"))>>),
    \* Import-LocalizedData $name -FileName 'Y'
    Command("Import-LocalizedData",
            <<Variable("name"),
              CommandParameter("FileName"), StringConstant(Q("Y"))>>) }

InitPositional == InitWith(PositionalPool)

SpecPositional == InitPositional /\ [][Next]_vars

\* the statements the parser recovers from a module with a syntax error
ParsePool ==
  { DirectCall,
    \* Write-Host 'X'
    Command("Write-Host", <<StringConstant(Q("X"))>>) }

(* Lines 25-29: Parser::ParseFile($resolvedPath.Path, [ref]$null,          *)
(* [ref]$errors) does not throw on a syntax error: it returns the tree of  *)
(* what it could read and fills $errors with the diagnostics.              *)
ParseErrors == { <<>>, <<"Missing closing '}' in statement block">> }

\* a module file that parses cleanly, or one with a syntax error
InitParse ==
  /\ resolvedPath \in {Null, ModuleFile}
  /\ scriptBlock \in IF resolvedPath = Null THEN {<<>>} ELSE Modules(ParsePool)
  /\ fileSystem \in SUBSET DataFiles
  /\ UICulture \in UICultureArguments
  /\ ProcessInit
  /\ EditorInit
  /\ powershellExecutable = ""
  /\ detections = [d \in 1..MaxDetections |-> IdleDetection]
  /\ scriptPath = ScriptPath
  /\ args = <<>>
  /\ spawned = NotSpawned
  /\ enableDecorations = TRUE
  /\ LoggerInit
  /\ errors \in IF resolvedPath = Null THEN {<<>>} ELSE ParseErrors
  /\ TimerInit
  /\ ManagerInit
  /\ InlineInit
  /\ HintInit

SpecParse == InitParse /\ [][Next]_vars

----------------------------------------------------------------------------
(* The editor: the decoration provider, the watchers, the commands.  The   *)
(* workspace holds one module of one statement, and its data files.        *)

EditorPool ==
  { DirectCall,
    \* Import-LocalizedData -FileName "Y$x" -BindingVariable 'W'
    Command("Import-LocalizedData",
            <<CommandParameter("FileName"), ExpandableString(<<DQ, "Y", "$", "x", DQ>>),
              CommandParameter("BindingVariable"), StringConstant(Q("W"))>>),
    \* Write-Host 'X'
    Command("Write-Host", <<StringConstant(Q("X"))>>),
    \* Write-Host 'Import-LocalizedData'
    Command("Write-Host", <<StringConstant(Q("Import-LocalizedData"))>>),
    \* import-localizeddata -FileName 'X' -BindingVariable 'V'
    Command("import-localizeddata",
            <<CommandParameter("FileName"), StringConstant(Q("X")),
              CommandParameter("BindingVariable"), StringConstant(Q("V"))>>) }

EditorModules == { <<[statement EXCEPT !.line = 1]>> : statement \in EditorPool }

processVars == <<UICulture, scriptVars, streamVars, executorVars>>

\* onDidChangeActiveTextEditor, onDidChangeTextDocument: triggerUpdateDecorations
TriggerUpdateDecorations ==
  /\ timeout' = TRUE
  /\ UNCHANGED <<hostVars, processVars, scriptBlock, fileSystem, resolvedPath, uiCulture,
                 writing, localizationCache, decorations, running, revision,
                 events, logged, shown>>

(* updateDecorations with decorations enabled, up to its first await: a    *)
(* cached entry is returned and decorated from; otherwise                  *)
(* getLocalizationData goes on to findModuleForFile.                       *)
DecorateFromCacheOrRun ==
  IF DocumentDirectory \in DOMAIN localizationCache
  THEN /\ decorations' = DecorationsFor(FALSE,
                                        localizationCache[DocumentDirectory].value,
                                        localizationCache[DocumentDirectory].revision)
       /\ UNCHANGED running
  ELSE /\ \E i \in 1..MaxRunning :
            /\ running[i].stage = "idle"
            /\ \A j \in 1..(i - 1) : running[j].stage # "idle"
            /\ running' = [running EXCEPT ![i].stage = "finding"]
       /\ UNCHANGED decorations

\* UpdateDecorations that does not look at enableDecorations
UpdateDecorationsWhenDisabled ==
  /\ timeout
  /\ timeout' = FALSE
  /\ DecorateFromCacheOrRun
  /\ UNCHANGED <<hostVars, processVars, scriptBlock, fileSystem, resolvedPath, uiCulture,
                 writing, localizationCache, revision, events, logged, shown>>

(* The timer fires: updateDecorations up to its first await.  With         *)
(* decorations disabled it sets the empty list and returns.                *)
UpdateDecorations ==
  /\ timeout
  /\ timeout' = FALSE
  /\ IF ~enableDecorations
     THEN /\ decorations' = NoDecorations
          /\ UNCHANGED running
     ELSE DecorateFromCacheOrRun
  /\ UNCHANGED <<hostVars, processVars, scriptBlock, fileSystem, resolvedPath, uiCulture,
                 writing, localizationCache, revision, events, logged, shown>>

(* getLocalizationData after await findModuleForFile: without a module it  *)
(* warns and returns null, and updateDecorations sets no decorations; with *)
(* one it calls parseLocalizationData(modulePath, getUICulture()); the     *)
(* culture of the call is kept with it, parseLocalizationData has no       *)
(* parameter that takes it.                                                *)
FindModule(i) ==
  /\ running[i].stage = "finding"
  /\ IF FindModuleForFile(resolvedPath, scriptBlock) = Null
     THEN /\ logged' = "No module found for file"
          /\ decorations' = DecorationsFor(TRUE, EmptyHash, 0)
          /\ running' = [running EXCEPT ![i] = IdleRun]
     ELSE /\ running' = [running EXCEPT ![i].stage = "spawned",
                                         ![i].culture = uiCulture]
          /\ UNCHANGED <<logged, decorations>>
  /\ UNCHANGED <<hostVars, processVars, scriptBlock, fileSystem, resolvedPath, uiCulture,
                 writing, localizationCache, timeout, revision, events, shown>>

(* The parser process of a call reads the module and the data files as     *)
(* they are now, or cannot be started.                                     *)
ParserRuns(i) ==
  /\ running[i].stage = "spawned"
  /\ \E started \in BOOLEAN :
       LET outcome == IF started
                      THEN ParseLocalizationDataOf(resolvedPath, scriptBlock, fileSystem)
                      ELSE [ok |-> FALSE, value |-> EmptyHash]
       IN running' = [running EXCEPT ![i] = [stage |-> "read", ok |-> outcome.ok,
                                             value |-> outcome.value,
                                             revision |-> revision,
                                             culture |-> running[i].culture,
                                             argv |-> IF started
                                                      THEN ParserArgv(resolvedPath)
                                                      ELSE <<>>]]
  /\ UNCHANGED <<hostVars, processVars, scriptBlock, fileSystem, resolvedPath, uiCulture,
                 writing, localizationCache, timeout, decorations, revision,
                 events, logged, shown>>

\* GetLocalizationDataReturns that caches what a failed run left
GetLocalizationDataReturnsCachesFailure(i) ==
  /\ running[i].stage = "read"
  /\ running' = [running EXCEPT ![i] = IdleRun]
  /\ localizationCache' = CacheSet(localizationCache, DocumentDirectory,
                                   [value |-> running[i].value,
                                    revision |-> running[i].revision])
  /\ IF running[i].ok
     THEN /\ decorations' = DecorationsFor(FALSE, running[i].value, running[i].revision)
          /\ UNCHANGED logged
     ELSE /\ logged' = "Failed to get localization data"
          /\ decorations' = DecorationsFor(TRUE, EmptyHash, 0)
  /\ UNCHANGED <<hostVars, processVars, scriptBlock, fileSystem, resolvedPath, uiCulture,
                 writing, timeout, revision, events, shown>>

(* getLocalizationData after await parseLocalizationData, and the rest of  *)
(* updateDecorations: the object is cached and decorated from; an error is *)
(* logged, null is returned and no decorations are set.                    *)
GetLocalizationDataReturns(i) ==
  /\ running[i].stage = "read"
  /\ running' = [running EXCEPT ![i] = IdleRun]
  /\ IF running[i].ok
     THEN /\ localizationCache' = CacheSet(localizationCache, DocumentDirectory,
                                           [value |-> running[i].value,
                                            revision |-> running[i].revision])
          /\ decorations' = DecorationsFor(FALSE, running[i].value, running[i].revision)
          /\ UNCHANGED logged
     ELSE /\ logged' = "Failed to get localization data"
          /\ decorations' = DecorationsFor(TRUE, EmptyHash, 0)
          /\ UNCHANGED localizationCache
  /\ UNCHANGED <<hostVars, processVars, scriptBlock, fileSystem, resolvedPath, uiCulture,
                 writing, timeout, revision, events, shown>>

\* a data file is saved with other contents; the watcher will report it
DataFileEdited ==
  /\ revision < MaxRevision
  /\ revision' = revision + 1
  /\ events' = events \cup {"psd1"}
  /\ UNCHANGED <<hostVars, processVars, scriptBlock, fileSystem, resolvedPath, uiCulture,
                 writing, localizationCache, timeout, decorations, running,
                 logged, shown>>

\* the module file is saved with other contents; the watcher will report it
ModuleFileEdited ==
  /\ resolvedPath # Null
  /\ scriptBlock' \in EditorModules \ {scriptBlock}
  /\ events' = events \cup {"psm1"}
  /\ UNCHANGED <<hostVars, processVars, fileSystem, resolvedPath, uiCulture, writing,
                 localizationCache, timeout, decorations, running, revision,
                 logged, shown>>

\* psd1Watcher.onDidChange: clearCache()
Psd1Changed ==
  /\ "psd1" \in events
  /\ events' = events \ {"psd1"}
  /\ localizationCache' = ClearCache(localizationCache)
  /\ timeout' = TRUE
  /\ UNCHANGED <<hostVars, processVars, scriptBlock, fileSystem, resolvedPath, uiCulture,
                 writing, decorations, running, revision, logged, shown>>

\* psm1Watcher.onDidChange: clearCacheForFile(uri.fsPath)
Psm1Changed ==
  /\ "psm1" \in events
  /\ events' = events \ {"psm1"}
  /\ localizationCache' = ClearCacheForFile(localizationCache, ModuleFilePath)
  /\ timeout' = TRUE
  /\ UNCHANGED <<hostVars, processVars, scriptBlock, fileSystem, resolvedPath, uiCulture,
                 writing, decorations, running, revision, logged, shown>>

(* handleSetUICulture up to await setUICulture: nothing but a message when *)
(* the culture is the one configured.                                      *)
HandleSetUICulture(culture) ==
  /\ writing.state = "none"
  /\ IF culture = uiCulture
     THEN /\ shown' = "UI Culture is already set"
          /\ UNCHANGED writing
     ELSE /\ writing' = [state |-> "pending", culture |-> culture]
          /\ UNCHANGED shown
  /\ UNCHANGED <<hostVars, processVars, scriptBlock, fileSystem, resolvedPath, uiCulture,
                 localizationCache, timeout, decorations, running, revision,
                 events, logged>>

(* onDidChangeConfiguration: the setting has its new value and             *)
(* handleConfigurationChange clears the cache.                             *)
ConfigurationUpdated ==
  /\ writing.state = "pending"
  /\ writing' = [writing EXCEPT !.state = "stored"]
  /\ uiCulture' = writing.culture
  /\ localizationCache' = ClearCache(localizationCache)
  /\ timeout' = TRUE
  /\ UNCHANGED <<hostVars, processVars, scriptBlock, fileSystem, resolvedPath, decorations,
                 running, revision, events, logged, shown>>

\* config.update rejects: the catch of handleSetUICulture
ConfigurationUpdateFails ==
  /\ writing.state = "pending"
  /\ writing' = NotWriting
  /\ logged' = "Failed to set UI culture"
  /\ shown' = "Failed to set UI culture"
  /\ UNCHANGED <<hostVars, processVars, scriptBlock, fileSystem, resolvedPath, uiCulture,
                 localizationCache, timeout, decorations, running, revision, events>>

\* handleSetUICulture after await setUICulture: clearCache() and a message
SetUICultureContinues ==
  /\ writing.state = "stored"
  /\ writing' = NotWriting
  /\ localizationCache' = ClearCache(localizationCache)
  /\ timeout' = TRUE
  /\ shown' = "UI Culture changed"
  /\ UNCHANGED <<hostVars, processVars, scriptBlock, fileSystem, resolvedPath, uiCulture,
                 decorations, running, revision, events, logged>>

(* The settings are edited: onDidChangeConfiguration with the culture      *)
(* given, which is the configured one when another setting of the          *)
(* extension changed.                                                      *)
SettingsEdited(culture) ==
  /\ uiCulture' = culture
  /\ localizationCache' = ClearCache(localizationCache)
  /\ timeout' = TRUE
  /\ UNCHANGED <<hostVars, processVars, scriptBlock, fileSystem, resolvedPath, writing,
                 decorations, running, revision, events, logged, shown>>

\* the decoration update, from the timer to the decorations
NextDecoration ==
  \/ TriggerUpdateDecorations
  \/ UpdateDecorations
  \/ \E i \in 1..MaxRunning : FindModule(i)
  \/ \E i \in 1..MaxRunning : ParserRuns(i)
  \/ \E i \in 1..MaxRunning : GetLocalizationDataReturns(i)

\* the decoration update and the file watchers
NextEditor ==
  \/ NextDecoration
  \/ DataFileEdited
  \/ ModuleFileEdited
  \/ Psd1Changed
  \/ Psm1Changed

\* the decoration update, the culture commands and the settings
NextCulture ==
  \/ NextDecoration
  \/ \E culture \in Cultures : HandleSetUICulture(culture)
  \/ ConfigurationUpdated
  \/ ConfigurationUpdateFails
  \/ SetUICultureContinues
  \/ \E culture \in Cultures : SettingsEdited(culture)

(* The setting enableDecorations is switched: handleConfigurationChange    *)
(* clears the cache, which schedules an update, and activates the provider *)
(* when decorations are enabled.                                           *)
EnableDecorationsEdited ==
  /\ enableDecorations' = ~enableDecorations
  /\ localizationCache' = ClearCache(localizationCache)
  /\ timeout' = TRUE
  /\ UNCHANGED <<detectVars, spawnVars, logVars, errors, lifeVars, processVars, scriptBlock,
                 fileSystem, resolvedPath, uiCulture, writing, decorations, running,
                 revision, events, logged, shown>>

\* the decoration update and the switch of the decorations
NextSettings ==
  \/ NextDecoration
  \/ EnableDecorationsEdited

InitEditor ==
  /\ resolvedPath \in {Null, ModuleFile}
  /\ scriptBlock \in IF resolvedPath = Null THEN {<<>>} ELSE EditorModules
  /\ fileSystem \in {DataFiles, {}}
  /\ UICulture = Null
  /\ ProcessInit
  /\ EditorInit
  /\ HostInit

SpecEditor == InitEditor /\ [][NextEditor]_vars

SpecCulture == InitEditor /\ [][NextCulture]_vars

SpecSettings == InitEditor /\ [][NextSettings]_vars

\* a timer that is set fires
SpecSettingsFair == SpecSettings /\ WF_vars(UpdateDecorations)

----------------------------------------------------------------------------
(* The logger: calls of its four methods and edits of the level.           *)

\* logger.error(message, error?), warn, info, debug; stack: error has a stack
Log(level, stack) ==
  /\ Len(outputChannel) + Len(LinesOf(level, stack)) <= MaxLines
  /\ outputChannel' = IF ShouldLog(level, logLevel)
                      THEN outputChannel \o LinesOf(level, stack)
                      ELSE outputChannel
  /\ logCall' = [level |-> level, configured |-> logLevel,
                 lines |-> Len(outputChannel') - Len(outputChannel)]
  /\ UNCHANGED <<inputVars, scriptVars, streamVars, executorVars, editorVars,
                 detectVars, spawnVars, settingVars, logLevel, errors, lifeVars>>

\* the setting logLevel is given another value
LogLevelEdited(level) ==
  /\ level # logLevel
  /\ logLevel' = level
  /\ UNCHANGED <<inputVars, scriptVars, streamVars, executorVars, editorVars,
                 detectVars, spawnVars, settingVars, outputChannel, logCall, errors, lifeVars>>

NextLogger ==
  \/ \E level \in LogLevels, stack \in BOOLEAN : Log(level, stack)
  \/ \E level \in LogLevels : LogLevelEdited(level)

\* the logger of an extension that has done nothing else yet
InitLogger ==
  /\ resolvedPath = Null
  /\ scriptBlock = <<>>
  /\ fileSystem = {}
  /\ UICulture = Null
  /\ ProcessInit
  /\ EditorInit
  /\ HostInit

SpecLogger == InitLogger /\ [][NextLogger]_vars

----------------------------------------------------------------------------
(* The debounce timer of the decoration provider, with the time.           *)

\* the bounds of the timed model: the longest step of the clock, the end
\* of the time observed, and the number of triggers
TickMs == 250
MaxClock == 1500
MaxTriggers == 4

\* setTimeout(..., 500)
DebounceMs == 500

Min(S) == CHOOSE x \in S : \A y \in S : x <= y

DueTimers == {t \in timers : t.due <= clock}

\* triggerUpdateDecorations that starts a timer without clearing the old one
TriggerUpdateDecorationsAtNoClear ==
  /\ Len(triggerLog) < MaxTriggers
  /\ DueTimers = {}
  /\ timers' = timers \cup {[id |-> Len(triggerLog) + 1, due |-> clock + DebounceMs]}
  /\ timeoutId' = Len(triggerLog) + 1
  /\ triggerLog' = Append(triggerLog, clock)
  /\ UNCHANGED <<baseVars, managerVars, inlineVars, hintVars, clock, runLog>>

(* triggerUpdateDecorations at the time of the clock: clearTimeout of the  *)
(* timer this.timeout names, which does nothing when that timer has fired, *)
(* then setTimeout.  The event loop runs the timers that are due before    *)
(* the events of the same time.                                            *)
TriggerUpdateDecorationsAt ==
  /\ Len(triggerLog) < MaxTriggers
  /\ DueTimers = {}
  /\ timers' = {t \in timers : timeoutId = 0 \/ t.id # timeoutId}
                 \cup {[id |-> Len(triggerLog) + 1, due |-> clock + DebounceMs]}
  /\ timeoutId' = Len(triggerLog) + 1
  /\ triggerLog' = Append(triggerLog, clock)
  /\ UNCHANGED <<baseVars, managerVars, inlineVars, hintVars, clock, runLog>>

\* the callback of a timer that is due: this.updateDecorations(); the
\* callback leaves this.timeout as it is
TimerFires ==
  /\ \E t \in DueTimers :
       /\ timers' = timers \ {t}
       /\ runLog' = Append(runLog, clock)
  /\ UNCHANGED <<baseVars, managerVars, inlineVars, hintVars, clock, timeoutId, triggerLog>>

\* time passes, up to the next timer that is due
Tick ==
  /\ clock < MaxClock
  /\ DueTimers = {}
  /\ clock' = Min({clock + TickMs} \cup {t.due : t \in timers})
  /\ UNCHANGED <<baseVars, managerVars, inlineVars, hintVars, timers, timeoutId, triggerLog, runLog>>

NextTimer ==
  \/ TriggerUpdateDecorationsAt
  \/ TimerFires
  \/ Tick

\* the provider before the trigger that ends activate()
InitTimer ==
  /\ resolvedPath = Null
  /\ scriptBlock = <<>>
  /\ fileSystem = {}
  /\ UICulture = Null
  /\ ProcessInit
  /\ EditorInit
  /\ powershellExecutable = ""
  /\ detections = [d \in 1..MaxDetections |-> IdleDetection]
  /\ scriptPath = ScriptPath
  /\ args = <<>>
  /\ spawned = NotSpawned
  /\ enableDecorations = TRUE
  /\ LoggerInit
  /\ errors = <<>>
  /\ TimerInit
  /\ ManagerInit
  /\ InlineInit
  /\ HintInit

SpecTimer == InitTimer /\ [][NextTimer]_vars

----------------------------------------------------------------------------
(* ExtensionManager: initialize, and the handlers it registers.            *)

\* the bounds: the .psm1 files of the workspace, the listeners of one event
MaxModules == 2
MaxListeners == 3

\* hasAnyModuleWithLocalization: some .psm1 file matches /Import-LocalizedData/i
HasAnyModuleWithLocalization(files) ==
  \E text \in files : HasImportLocalizedData(text)

\* everything but the variables the manager's handlers write
managerFrame ==
  <<detectVars, spawnVars, logVars, errors, timerVars, inlineVars, hintVars, processVars,
    scriptBlock,
    fileSystem, resolvedPath, uiCulture, writing, decorations, running, revision,
    events, logged, shown>>

\* activate(): one more listener of each event, and a trigger
Activate == [k \in DOMAIN listeners |-> listeners[k] + 1]

\* registerDecorationProvider: activate() when decorations are enabled
RegisterDecorationProvider(enabled) ==
  IF enabled THEN Activate ELSE listeners

\* initialize() is called, and awaits isPowerShellAvailable()
Initialize ==
  /\ initialize.stage = "idle"
  /\ initialize' = [initialize EXCEPT !.stage = "checking"]
  /\ UNCHANGED <<managerFrame, settingVars, localizationCache, timeout, available,
                 workspace, subscriptions, listeners, disposed>>

(* isPowerShellAvailable() returns: false when detection or the version    *)
(* command failed, and initialize shows the error and returns; otherwise   *)
(* initialize awaits hasAnyModuleWithLocalization().                       *)
IsPowerShellAvailableReturns ==
  /\ initialize.stage = "checking"
  /\ initialize' = [initialize EXCEPT
                      !.isPowerShellAvailable = available,
                      !.stage = IF available THEN "scanning" ELSE "returned"]
  /\ UNCHANGED <<managerFrame, settingVars, localizationCache, timeout, available,
                 workspace, subscriptions, listeners, disposed>>

\* the rest of initialize without the return on an empty scan
HasAnyModuleWithLocalizationReturnsNoReturn ==
  /\ initialize.stage = "scanning"
  /\ initialize' = [initialize EXCEPT
                      !.hasModulesWithLocalization = HasAnyModuleWithLocalization(workspace),
                      !.stage = "done"]
  /\ listeners' = RegisterDecorationProvider(enableDecorations)
  /\ timeout' = enableDecorations
  /\ subscriptions' = AllSubscriptions
  /\ UNCHANGED <<managerFrame, settingVars, localizationCache, available, workspace,
                 disposed>>

(* hasAnyModuleWithLocalization() returns: with no module initialize       *)
(* returns; with one it registers the decoration provider, the             *)
(* configuration listener, the file watchers and the commands.             *)
HasAnyModuleWithLocalizationReturns ==
  /\ initialize.stage = "scanning"
  /\ LET found == HasAnyModuleWithLocalization(workspace) IN
     /\ initialize' = [initialize EXCEPT
                         !.hasModulesWithLocalization = found,
                         !.stage = IF found THEN "done" ELSE "returned"]
     /\ listeners' = IF found THEN RegisterDecorationProvider(enableDecorations)
                     ELSE listeners
     /\ timeout' = (found /\ enableDecorations)
     /\ subscriptions' = IF found THEN AllSubscriptions ELSE subscriptions
  /\ UNCHANGED <<managerFrame, settingVars, localizationCache, available, workspace,
                 disposed>>

(* A setting of the extension is edited, here enableDecorations or another *)
(* one: the configuration listener runs handleConfigurationChange, which   *)
(* clears the cache and registers the decoration provider when decorations *)
(* are enabled.                                                            *)
HandleConfigurationChange(enabled) ==
  /\ "configurationListener" \in subscriptions
  /\ listeners.activeTextEditor < MaxListeners
  /\ enableDecorations' = enabled
  /\ localizationCache' = ClearCache(localizationCache)
  /\ timeout' = TRUE
  /\ listeners' = RegisterDecorationProvider(enabled)
  /\ UNCHANGED <<managerFrame, available, workspace, initialize, subscriptions, disposed>>

(* A .psm1 file is created: the watcher runs handleModuleFileChange, which *)
(* scans again and registers the decoration provider when a module calls   *)
(* Import-LocalizedData.                                                   *)
HandleModuleFileChange(text) ==
  /\ "fileSystemWatchers" \in subscriptions
  /\ listeners.activeTextEditor < MaxListeners
  /\ text \notin workspace
  /\ Cardinality(workspace) < MaxModules
  /\ workspace' = workspace \cup {text}
  /\ LET registers == HasAnyModuleWithLocalization(workspace') /\ enableDecorations IN
     /\ listeners' = RegisterDecorationProvider(registers)
     /\ timeout' = (timeout \/ registers)
  /\ UNCHANGED <<managerFrame, settingVars, localizationCache, available, initialize,
                 subscriptions, disposed>>

NextManager ==
  \/ Initialize
  \/ IsPowerShellAvailableReturns
  \/ HasAnyModuleWithLocalizationReturns
  \/ \E enabled \in BOOLEAN : HandleConfigurationChange(enabled)
  \/ \E text \in EditorModules : HandleModuleFileChange(text)

\* the extension before activate(context) calls initialize()
InitManager ==
  /\ resolvedPath = Null
  /\ scriptBlock = <<>>
  /\ fileSystem = {}
  /\ UICulture = Null
  /\ ProcessInit
  /\ uiCulture = <<"en-US">>
  /\ writing = NotWriting
  /\ localizationCache = EmptyCache
  /\ timeout = FALSE
  /\ decorations = [kind |-> "unset", revision |-> 0]
  /\ running = [i \in 1..MaxRunning |-> IdleRun]
  /\ revision = 0
  /\ events = {}
  /\ logged = ""
  /\ shown = ""
  /\ powershellExecutable = ""
  /\ detections = [d \in 1..MaxDetections |-> IdleDetection]
  /\ scriptPath = ScriptPath
  /\ args = <<>>
  /\ spawned = NotSpawned
  /\ enableDecorations \in BOOLEAN
  /\ LoggerInit
  /\ errors = <<>>
  /\ TimerInit
  /\ available \in BOOLEAN
  /\ workspace \in {files \in SUBSET EditorModules : Cardinality(files) < MaxModules}
  /\ initialize = [stage |-> "idle", isPowerShellAvailable |-> FALSE,
                   hasModulesWithLocalization |-> FALSE]
  /\ subscriptions = {}
  /\ listeners = NoListeners
  /\ disposed = FALSE
  /\ InlineInit
  /\ HintInit

SpecManager == InitManager /\ [][NextManager]_vars

----------------------------------------------------------------------------
(* deactivate(): ExtensionManager.dispose, and what is still under way.    *)

\* the editor without the decorations of the disposed decoration type
DisposedDecorations == [kind |-> "disposed", revision |-> 0]

\* one of the provider's listeners is called
EditorEvent ==
  /\ listeners.activeTextEditor > 0
  /\ TriggerUpdateDecorations

\* one of the culture commands is run
CultureCommand(culture) ==
  /\ "commands" \in subscriptions
  /\ HandleSetUICulture(culture)

(* config.update resolves: the setting is stored, and the configuration    *)
(* listener, when it is still registered, runs handleConfigurationChange.  *)
ConfigurationStored ==
  IF "configurationListener" \in subscriptions
  THEN ConfigurationUpdated
  ELSE /\ writing.state = "pending"
       /\ writing' = [writing EXCEPT !.state = "stored"]
       /\ uiCulture' = writing.culture
       /\ UNCHANGED <<hostVars, processVars, scriptBlock, fileSystem, resolvedPath,
                      localizationCache, timeout, decorations, running, revision,
                      events, logged, shown>>

(* ExtensionManager.dispose disposes the provider, the configuration       *)
(* listener, the watchers and the commands.  The provider's dispose clears *)
(* the timer and disposes its listeners and the decoration type, which     *)
(* takes its decorations off the editors; it sets no flag that the         *)
(* provider's methods look at.                                             *)
Dispose ==
  /\ ~disposed
  /\ listeners.activeTextEditor > 0
  /\ disposed' = TRUE
  /\ timeout' = FALSE
  /\ listeners' = NoListeners
  /\ subscriptions' = {}
  /\ decorations' = DisposedDecorations
  /\ UNCHANGED <<detectVars, spawnVars, settingVars, logVars, errors, timerVars,
                 inlineVars, hintVars, available, workspace, initialize, processVars, scriptBlock,
                 fileSystem, resolvedPath, uiCulture, writing, localizationCache,
                 running, revision, events, logged, shown>>

NextDispose ==
  \/ EditorEvent
  \/ UpdateDecorations
  \/ \E i \in 1..MaxRunning : FindModule(i)
  \/ \E i \in 1..MaxRunning : ParserRuns(i)
  \/ \E i \in 1..MaxRunning : GetLocalizationDataReturns(i)
  \/ \E culture \in Cultures : CultureCommand(culture)
  \/ ConfigurationStored
  \/ ConfigurationUpdateFails
  \/ SetUICultureContinues
  \/ Dispose

SpecDispose == InitEditor /\ [][NextDispose]_vars

----------------------------------------------------------------------------
(* The caches of the two providers.                                        *)

\* the bound: the calls of the inline values provider
MaxInlineCalls == 3

\* document.uri.fsPath: the cache key of the inline values provider
DocumentPath == "ModuleDir/Document.ps1"

\* the end of the inline provider's getLocalizationData after a run
InlineRunReturns(outcome) ==
  /\ inlineCall' = [n |-> inlineCall.n + 1, cached |-> FALSE, ran |-> TRUE,
                    ok |-> outcome.ok]
  /\ inlineCache' = IF outcome.ok
                    THEN CacheSet(inlineCache, DocumentPath,
                                  [value |-> outcome.value, revision |-> revision])
                    ELSE inlineCache

(* LocalizationInlineValuesProvider.getLocalizationData: the entry of the  *)
(* document's path when there is one; otherwise the first .psm1 file of    *)
(* the workspace is parsed, and the result is cached when the run          *)
(* succeeded; null without a module or after a failed run.                 *)
InlineGetLocalizationData ==
  /\ inlineCall.n < MaxInlineCalls
  /\ IF DocumentPath \in DOMAIN inlineCache
     THEN /\ inlineCall' = [n |-> inlineCall.n + 1, cached |-> TRUE, ran |-> FALSE,
                            ok |-> TRUE]
          /\ UNCHANGED inlineCache
     ELSE IF resolvedPath = Null
     THEN /\ inlineCall' = [n |-> inlineCall.n + 1, cached |-> FALSE, ran |-> FALSE,
                            ok |-> FALSE]
          /\ UNCHANGED inlineCache
     ELSE \E started \in BOOLEAN :
            InlineRunReturns(IF started
                             THEN ParseLocalizationDataOf(resolvedPath, scriptBlock, fileSystem)
                             ELSE [ok |-> FALSE, value |-> EmptyHash])
  /\ UNCHANGED <<baseVars, timerVars, managerVars, hintVars>>

NextCache ==
  \/ NextDecoration
  \/ InlineGetLocalizationData

SpecCache == InitEditor /\ [][NextCache]_vars

----------------------------------------------------------------------------
(* createDecorations and extractInlineValues.  A name is a sequence of     *)
(* pieces of text, so that Data is a prefix of DataMore; a token is        *)
(* $name or $name.property.                                                *)

\* the bound: the variable tokens of the document
MaxTokens == 2

BindingVariableNames == { <<"Data">>, <<"Data", "More">> }

TokenNames == BindingVariableNames \cup { <<"Data", "Old">>, <<"Other">> }

PropertyNames == {"", "Key", "Missing"}

Tokens == [name : TokenNames, propName : PropertyNames]

\* the table of a binding: without entries, or with the entry Key
Tables == { {}, {"Key"} }

\* the objects JSON.parse may return: up to two bindings, in either order
LocalizationDatas ==
  UNION { { [i \in 1..n |-> [name |-> names[i], table |-> tables[i]]] :
              names \in {f \in [1..n -> BindingVariableNames] :
                           \A i, j \in 1..n : i # j => f[i] # f[j]},
              tables \in [1..n -> Tables] } :
          n \in 0..2 }

(* new RegExp(`\\$(${escapedVarNames.join('|')})(?:\\.(...))?`, 'g') at a  *)
(* $: the first alternative, in the order of Object.keys, that the text    *)
(* after the $ starts with; 0 when there is none.                          *)
FirstAlternative(data, name) ==
  LET matching == {j \in 1..Len(data) : StartsWith(name, data[j].name)}
  IN IF matching = {} THEN 0 ELSE Min(matching)

\* match[2]: the property is captured when the dot follows the alternative
CapturedProperty(entry, token) ==
  IF entry.name = token.name THEN token.propName ELSE ""

\* getPropertyValue and getVariableValue: whether the value is not null
HasValue(entry, propName) ==
  IF propName # "" THEN propName \in entry.table ELSE entry.table # {}

(* The body of while ((match = bindingVarRegex.exec(textLine.text))) for   *)
(* the token of a line: the hint made for it, as a sequence of none or one *)
HintOf(data, token, line) ==
  IF FirstAlternative(data, token.name) = 0 THEN <<>>
  ELSE IF ~HasValue(data[FirstAlternative(data, token.name)],
                    CapturedProperty(data[FirstAlternative(data, token.name)], token))
  THEN <<>>
  ELSE <<[line |-> line,
          varName |-> data[FirstAlternative(data, token.name)].name,
          propName |-> CapturedProperty(data[FirstAlternative(data, token.name)], token)]>>

\* the loop over the lines first..last of the document
RECURSIVE HintsOfLines(_, _, _, _)
HintsOfLines(data, text, first, last) ==
  IF first > last \/ first > Len(text) THEN <<>>
  ELSE HintOf(data, text[first], first) \o HintsOfLines(data, text, first + 1, last)

\* createDecorations(document, localizationData): every line
CreateDecorations ==
  /\ ~hints.created
  /\ hints' = [hints EXCEPT !.created = TRUE,
                            !.decorations = HintsOfLines(localizationData, document,
                                                         1, Len(document))]
  /\ UNCHANGED <<baseVars, timerVars, managerVars, inlineVars, document, localizationData>>

\* extractInlineValues(document, viewPort, localizationData): the lines of
\* the viewport
ExtractInlineValues(first, last) ==
  /\ ~hints.extracted
  /\ hints' = [hints EXCEPT !.extracted = TRUE,
                            !.inlineValues = HintsOfLines(localizationData, document,
                                                          first, last)]
  /\ UNCHANGED <<baseVars, timerVars, managerVars, inlineVars, document, localizationData>>

NextHints ==
  \/ CreateDecorations
  \/ \E first, last \in 1..MaxTokens : ExtractInlineValues(first, last)

InitHints ==
  /\ resolvedPath = Null
  /\ scriptBlock = <<>>
  /\ fileSystem = {}
  /\ UICulture = Null
  /\ ProcessInit
  /\ EditorInit
  /\ powershellExecutable = ""
  /\ detections = [d \in 1..MaxDetections |-> IdleDetection]
  /\ scriptPath = ScriptPath
  /\ args = <<>>
  /\ spawned = NotSpawned
  /\ enableDecorations = TRUE
  /\ LoggerInit
  /\ errors = <<>>
  /\ TimerInit
  /\ ManagerInit
  /\ InlineInit
  /\ document \in UNION { [1..n -> Tokens] : n \in 0..MaxTokens }
  /\ localizationData \in LocalizationDatas
  /\ hints = NoHints

SpecHints == InitHints /\ [][NextHints]_vars

----------------------------------------------------------------------------
(* Properties.                                                             *)

\* the call the loop has just processed, when there is one
Processed == pc = "foreach" /\ callIndex > 1
lastCall == importLocalizedDataCalls[callIndex - 1]

\* the data file a call with the file name of $splat loads under a culture
DataFileOf(culture) ==
  <<<<parentDirectory>>, culture, HashGet(splat, FileNameKey)>>

(* C1: a run with no locale, absent or empty, ends with the same exit code *)
(* and the same payload, binding name by binding name, as the run on the   *)
(* same module and data files with the locale en-US given explicitly.      *)
C1_DefaultLocaleIsEnUS ==
  (pc = "exited" /\ UICulture \in {Null, <<>>})
    => [exitCode |-> exitCode, stdout |-> stdout]
         = Extract(resolvedPath, scriptBlock, <<"en-US">>, fileSystem)

\* a run with the empty locale has returned a table
C1_Witness ==
  /\ pc = "exited"
  /\ UICulture = <<>>
  /\ exitCode = 0
  /\ JsonParse(stdout).ok
  /\ \E b \in DOMAIN result : result[b] # Null

IsFileAndBindingBundle(right) ==
  /\ right.kind = "HashtableAst"
  /\ Len(right.pairs) = 2
  /\ {right.pairs[i].Item1 : i \in 1..2} = {FileNameKey, BindingVariableKey}
  /\ \A i \in 1..2 : right.pairs[i].Item2.kind = "StringConstantExpressionAst"

EntryOf(right, key) ==
  right.pairs[CHOOSE i \in 1..Len(right.pairs) : right.pairs[i].Item1 = key].Item2

\* the call written with the entries of the bundle as named literal arguments
NamedLiteralCall(right, line) ==
  [Command("Import-LocalizedData",
           <<CommandParameter("FileName"), EntryOf(right, FileNameKey),
             CommandParameter("BindingVariable"), EntryOf(right, BindingVariableKey)>>)
     EXCEPT !.line = line]

IsSplatCall(call) == Len(call.elements) = 1 /\ call.elements[1].splatted

SplatAssignment(call) ==
  LastAssignment(scriptBlock, call.elements[1].userPath, call.line)

(* C3: a call @v whose latest prior assignment is a bundle literal with    *)
(* the entries FileName = X and BindingVariable = V has the ArgumentRecord *)
(* of the call -FileName X -BindingVariable V, and stores the same table   *)
(* under the same binding name.                                            *)
C3_SplatEqualsNamedLiterals ==
  (/\ Processed
   /\ IsSplatCall(lastCall)
   /\ SplatAssignment(lastCall) # 0
   /\ IsFileAndBindingBundle(scriptBlock[SplatAssignment(lastCall)].right))
    => LET direct == NamedLiteralCall(scriptBlock[SplatAssignment(lastCall)].right,
                                      lastCall.line)
           after == ProcessCall(scriptBlock, direct, UICulture, fileSystem, BeforeCalls)
       IN /\ ArgumentRecord(scriptBlock, lastCall).splat
               = ArgumentRecord(scriptBlock, direct).splat
          /\ splat = after.splat
          /\ bindingVariable = after.bindingVariable
          /\ result[bindingVariable] = after.result[after.bindingVariable]

\* a splatted call of a quoted FileName/BindingVariable bundle has loaded a table
C3_Witness ==
  /\ Processed
  /\ IsSplatCall(lastCall)
  /\ SplatAssignment(lastCall) # 0
  /\ IsFileAndBindingBundle(scriptBlock[SplatAssignment(lastCall)].right)
  /\ result[bindingVariable] # Null

\* the assignments to a name that start on a line at or before a line
PriorAssignments(name, line) ==
  {i \in 1..Len(scriptBlock) :
     /\ scriptBlock[i].type = "AssignmentStatementAst"
     /\ scriptBlock[i].left = name
     /\ scriptBlock[i].line <= line}

\* i has the greatest starting line of S, and is the last met of that line
GreatestLineLastMet(i, S) ==
  /\ i \in S
  /\ \A j \in S : \/ scriptBlock[j].line < scriptBlock[i].line
                  \/ scriptBlock[j].line = scriptBlock[i].line /\ j <= i

(* C4: with several assignments to the identifier on lines at or before    *)
(* the reference, the lookup takes the one with the greatest starting      *)
(* line, the last met on a tie, and the arguments of the call are the      *)
(* literal entries of that assignment.                                     *)
C4_LastAssignmentWins ==
  (/\ Processed
   /\ IsSplatCall(lastCall)
   /\ PriorAssignments(lastCall.elements[1].userPath, lastCall.line) # {})
    => \E i \in PriorAssignments(lastCall.elements[1].userPath, lastCall.line) :
         /\ GreatestLineLastMet(i, PriorAssignments(lastCall.elements[1].userPath,
                                                    lastCall.line))
         /\ SplatAssignment(lastCall) = i
         /\ \A k \in 1..Len(scriptBlock[i].right.pairs) :
              LET kv == scriptBlock[i].right.pairs[k] IN
              kv.Item2.kind = "StringConstantExpressionAst"
                => IF kv.Item1 = BindingVariableKey
                   THEN bindingVariable = TrimQuotes(kv.Item2.text)
                   ELSE splat[kv.Item1] = TrimQuotes(kv.Item2.text)

\* two assignments of different bundles on different lines, both before the
\* reference
C4_Witness ==
  /\ Processed
  /\ IsSplatCall(lastCall)
  /\ \E i, j \in PriorAssignments(lastCall.elements[1].userPath, lastCall.line) :
       /\ scriptBlock[i].line < scriptBlock[j].line
       /\ scriptBlock[j].line < lastCall.line
       /\ scriptBlock[i].right # scriptBlock[j].right

\* the parameter name a value element of a call is stored under: the name of
\* the parameter marker just before it
ParameterNameOf(call, k) == Trim(call.elements[k - 1].text, "-")

\* a variable reference that is no bundle expansion, given as the value of a
\* parameter other than the binding name
IsValueReference(call, k) ==
  /\ call.elements[k].kind = "VariableExpressionAst"
  /\ ~call.elements[k].splatted
  /\ call.elements[k - 1].kind = "CommandParameterAst"
  /\ ParameterNameOf(call, k) # BindingVariableKey

\* the entries of the bundle of a splatted call whose value is a variable
ReferenceEntries(call) ==
  IF IsSplatCall(call) /\ SplatAssignment(call) # 0
  THEN LET right == scriptBlock[SplatAssignment(call)].right IN
       {k \in 1..Len(right.pairs) :
          /\ right.pairs[k].Item2.kind = "VariableExpressionAst"
          /\ right.pairs[k].Item1 # BindingVariableKey}
  ELSE {}

EntryAssignment(call, k) ==
  LastAssignment(scriptBlock,
                 scriptBlock[SplatAssignment(call)].right.pairs[k].Item2.userPath,
                 scriptBlock[SplatAssignment(call)].line)

(* C5: a variable reference that is no bundle expansion, a direct argument *)
(* or the value of an entry of an expanded bundle, is stored as the        *)
(* right-hand side of its latest prior assignment, quotes stripped.        *)
C5_ReferenceStoredAsAssignedValue ==
  Processed =>
    /\ \A k \in 2..Len(lastCall.elements) :
         LET a == LastAssignment(scriptBlock, lastCall.elements[k].userPath,
                                 lastCall.line) IN
         (IsValueReference(lastCall, k) /\ a # 0)
           => splat[ParameterNameOf(lastCall, k)] = TrimQuotes(scriptBlock[a].right.text)
    /\ \A k \in ReferenceEntries(lastCall) :
         EntryAssignment(lastCall, k) # 0
           => splat[scriptBlock[SplatAssignment(lastCall)].right.pairs[k].Item1]
                = TrimQuotes(scriptBlock[EntryAssignment(lastCall, k)].right.text)

(* C6: a variable reference with no assignment at or before it is stored   *)
(* as its own source text under the current parameter name.                *)
C6_UnresolvedStoredAsText ==
  Processed =>
    /\ \A k \in 2..Len(lastCall.elements) :
         (/\ IsValueReference(lastCall, k)
          /\ LastAssignment(scriptBlock, lastCall.elements[k].userPath,
                            lastCall.line) = 0)
           => splat[ParameterNameOf(lastCall, k)] = lastCall.elements[k].text
    /\ \A k \in ReferenceEntries(lastCall) :
         EntryAssignment(lastCall, k) = 0
           => splat[scriptBlock[SplatAssignment(lastCall)].right.pairs[k].Item1]
                = scriptBlock[SplatAssignment(lastCall)].right.pairs[k].Item2.text

RecognizedKinds ==
  {"CommandParameterAst", "CommandExpressionAst", "ParameterAst",
   "StringConstantExpressionAst", "VariableExpressionAst"}

\* a call with an element of unrecognized kind
IsMalformed(call) ==
  \E k \in 1..Len(call.elements) : call.elements[k].kind \notin RecognizedKinds

\* a call of named string literals that names a file and a binding
IsWellFormed(call) ==
  /\ \A k \in 1..Len(call.elements) :
       call.elements[k].kind \in {"CommandParameterAst", "StringConstantExpressionAst"}
  /\ ~ArgumentRecord(scriptBlock, call).threw
  /\ {FileNameKey, BindingVariableKey} \subseteq DOMAIN ArgumentRecord(scriptBlock, call).splat

BindingNameOf(call) == ArgumentRecord(scriptBlock, call).splat[BindingVariableKey]

\* the mapping a run on the module made of this call alone returns
AloneResult(call) ==
  JsonParse(Extract(ModuleFile, <<call>>, UICulture, fileSystem).stdout).value

(* C7: in a module with one well-formed call and one call with an element  *)
(* of unrecognized kind, in either order, the run still returns the entry  *)
(* of the well-formed call, complete and correct.                          *)
C7_MalformedCallIsIsolated ==
  (pc = "exited" /\ Len(importLocalizedDataCalls) = 2)
    => \A g, m \in 1..2 :
         (/\ g # m
          /\ IsWellFormed(importLocalizedDataCalls[g])
          /\ IsMalformed(importLocalizedDataCalls[m]))
           => /\ exitCode = 0
              /\ JsonParse(stdout).ok
              /\ BindingNameOf(importLocalizedDataCalls[g]) \in DOMAIN JsonParse(stdout).value
              /\ JsonParse(stdout).value[BindingNameOf(importLocalizedDataCalls[g])]
                   = AloneResult(importLocalizedDataCalls[g])[BindingNameOf(importLocalizedDataCalls[g])]

\* the resolved arguments of a call hold a binding name
HasBindingName(call) ==
  Truthy(HashGet(ArgumentRecord(scriptBlock, call).splat, BindingVariableKey))

(* C8: processing a call whose resolved arguments hold no binding name     *)
(* adds no entry to the result mapping and changes no entry of it.         *)
C8_NoBindingNoEntry ==
  [][(/\ pc = "foreach"
      /\ callIndex <= Len(importLocalizedDataCalls)
      /\ ~ArgumentRecord(scriptBlock, importLocalizedDataCalls[callIndex]).threw
      /\ ~HasBindingName(importLocalizedDataCalls[callIndex]))
       => result' = result]_vars

\* the data file a well-formed call names, under the effective locale
DataFileOfCall(call) ==
  <<<<parentDirectory>>, IF UICulture \in {Null, <<>>} THEN <<"en-US">> ELSE UICulture,
    ArgumentRecord(scriptBlock, call).splat[FileNameKey]>>

(* C9: when every call is well-formed and the bindings are distinct, the   *)
(* run succeeds, the result has no key for a binding whose data file is    *)
(* missing under the requested locale, and it has the table of the file    *)
(* for every other binding.                                                *)
C9_MissingFileNoKey ==
  (/\ pc = "exited"
   /\ Len(importLocalizedDataCalls) > 0
   /\ \A i \in 1..Len(importLocalizedDataCalls) : IsWellFormed(importLocalizedDataCalls[i])
   /\ \A i, j \in 1..Len(importLocalizedDataCalls) :
        i # j => BindingNameOf(importLocalizedDataCalls[i])
                   # BindingNameOf(importLocalizedDataCalls[j]))
    => /\ exitCode = 0
       /\ JsonParse(stdout).ok
       /\ \A i \in 1..Len(importLocalizedDataCalls) :
            LET call == importLocalizedDataCalls[i] IN
            IF DataFileOfCall(call) \in fileSystem
            THEN /\ BindingNameOf(call) \in DOMAIN JsonParse(stdout).value
                 /\ JsonParse(stdout).value[BindingNameOf(call)] = TableAt(DataFileOfCall(call))
            ELSE BindingNameOf(call) \notin DOMAIN JsonParse(stdout).value

(* C10: for a module with no call to Import-LocalizedData the run does not *)
(* fail and the caller that parses the payload obtains the empty object.   *)
C10_NoCallsEmptyObject ==
  (/\ resolvedPath # Null
   /\ Len(importLocalizedDataCalls) = 0
   /\ pc = "exited"
   /\ caller # "awaiting")
    => /\ exitCode = 0
       /\ caller = "resolved"
       /\ parsed = EmptyHash

(* C11: a run on a path that resolves to no file ends with the File not    *)
(* found warning as its only output and no payload; it has searched no     *)
(* call, loaded no data file and thrown nothing (exit code 0), and no      *)
(* object reaches the caller.                                              *)
C11_MissingFileWarningOnly ==
  (resolvedPath = Null /\ pc = "exited")
    => /\ stdout = <<WarningLine("File not found")>>
       /\ ~JsonParse(stdout).ok
       /\ exitCode = 0
       /\ callIndex = 0
       /\ splat = EmptyHash
       /\ result = EmptyHash
       /\ parsed = Null

\* the run on a missing file is over and its caller has the outcome
C11_Witness ==
  /\ resolvedPath = Null
  /\ pc = "exited"
  /\ stdout # <<>>
  /\ caller # "awaiting"

\* the text with one layer of surrounding matching quotes removed
StripOneLayer(text) ==
  IF Len(text) >= 2 /\ Head(text) \in {SQ, DQ} /\ text[Len(text)] = Head(text)
  THEN SubSeq(text, 2, Len(text) - 1)
  ELSE text

\* a string literal given as the value of a parameter
IsLiteralArgument(call, k) ==
  /\ call.elements[k].kind = "StringConstantExpressionAst"
  /\ call.elements[k - 1].kind = "CommandParameterAst"

\* the literal entries of the bundle of a splatted call
LiteralEntries(call) ==
  IF IsSplatCall(call) /\ SplatAssignment(call) # 0
  THEN LET right == scriptBlock[SplatAssignment(call)].right IN
       {k \in 1..Len(right.pairs) :
          right.pairs[k].Item2.kind = "StringConstantExpressionAst"}
  ELSE {}

(* C12: every literal argument of a processed call, named on the call or   *)
(* an entry of its bundle, is stored in the ArgumentRecord as its source   *)
(* text with exactly one layer of surrounding matching quotes removed:     *)
(* quote characters inside that layer are kept.                            *)
C12_LiteralOneLayerStripped ==
  Processed =>
    /\ \A k \in 2..Len(lastCall.elements) :
         IsLiteralArgument(lastCall, k)
           => ArgumentRecord(scriptBlock, lastCall).splat[ParameterNameOf(lastCall, k)]
                = StripOneLayer(lastCall.elements[k].text)
    /\ \A k \in LiteralEntries(lastCall) :
         LET kv == scriptBlock[SplatAssignment(lastCall)].right.pairs[k] IN
         ArgumentRecord(scriptBlock, lastCall).splat[kv.Item1] = StripOneLayer(kv.Item2.text)

\* the locale a run uses: the -UICulture argument, en-US without one
EffectiveLocale == IF UICulture \in {Null, <<>>} THEN <<"en-US">> ELSE UICulture

\* what the source call itself gives for a parameter, $null when nothing
SourceArgument(call, key) == HashGet(ArgumentRecord(scriptBlock, call).splat, key)

(* C13: the arguments a processed call loads its data with have the        *)
(* directory of the module file as base directory and the effective locale *)
(* as locale, whatever the call itself gives for either, and a table that  *)
(* is loaded comes from that directory and that locale.                    *)
C13_BaseDirectoryAndLocaleOverridden ==
  Processed =>
    /\ splat[BaseDirectoryKey] = <<parentDirectory>>
    /\ splat[UICultureKey] = EffectiveLocale
    /\ result[bindingVariable] # Null
         => /\ result[bindingVariable][2] = parentDirectory
            /\ CultureOf(result[bindingVariable]) = EffectiveLocale

\* a call that gives another base directory and another locale, by literal
\* or by bundle, has loaded a table
C13_Witness ==
  /\ Processed
  /\ SourceArgument(lastCall, BaseDirectoryKey) = <<"Other">>
  /\ SourceArgument(lastCall, UICultureKey) \in Cultures \ {EffectiveLocale}
  /\ result[bindingVariable] # Null

\* the data Import-LocalizedData gives a well-formed call: the table of its
\* file under the effective locale, nothing when there is no such file
LoadedBy(call) ==
  IF DataFileOfCall(call) \in fileSystem THEN TableAt(DataFileOfCall(call)) ELSE Null

\* the calls, by position, whose arguments hold a binding name
NamingCalls ==
  {i \in 1..Len(importLocalizedDataCalls) : HasBindingName(importLocalizedDataCalls[i])}

BindingNames == {BindingNameOf(importLocalizedDataCalls[i]) : i \in NamingCalls}

\* the last call in source order that uses a binding name
LastCallNaming(b) ==
  Max({i \in NamingCalls : BindingNameOf(importLocalizedDataCalls[i]) = b})

(* C14: the mapping a successful run returns has exactly one entry for     *)
(* each binding name the calls use, and the entry holds the data loaded by *)
(* the last call, in source order, that uses the name.                     *)
C14_OneEntryPerBindingLastWins ==
  (/\ pc = "exited"
   /\ exitCode = 0
   /\ Len(importLocalizedDataCalls) > 0)
    => /\ DOMAIN result = BindingNames
       /\ \A b \in BindingNames :
            result[b] = LoadedBy(importLocalizedDataCalls[LastCallNaming(b)])

(* C15: the working directory is changed only while the calls are being    *)
(* processed, with exactly one directory saved, and on every way out of    *)
(* the run (result returned, no calls, missing file, a throw) it is the    *)
(* directory the run started in and nothing is left saved.                 *)
C15_WorkingDirectoryRestored ==
  /\ pc \in {"start", "failed", "exited"}
       => location = OriginalLocation /\ locationStack = <<>>
  /\ pc = "foreach"
       => location = parentDirectory /\ locationStack = <<OriginalLocation>>

\* the second call of a module threw and the run is over
C15_Witness ==
  /\ pc = "exited"
  /\ exitCode = 1
  /\ callIndex = 2
  /\ result # EmptyHash

\* the close event of the process has been handled
Closed == pc = "exited" /\ executeScript.state # "pending"

(* C16: executeScript resolves exactly when the process closes with exit   *)
(* code 0, and then with everything the process wrote to standard output;  *)
(* when the process closes with another code or cannot be started it       *)
(* rejects with an error that holds the diagnostic text (everything        *)
(* written to standard error, or the start error) and no payload, and      *)
(* nothing is parsed.                                                      *)
C16_ResolvesOnlyOnExitZero ==
  /\ executeScript.state = "resolved"
       => Closed /\ exitCode = 0 /\ executeScript.output = stdout
  /\ (Closed /\ exitCode = 0) => executeScript.state = "resolved"
  /\ (Closed /\ exitCode # 0)
       => /\ executeScript.state = "rejected"
          /\ executeScript.error.code = exitCode
          /\ executeScript.error.diagnostic = stderr
          /\ stderr # <<>>
  /\ pc = "failed"
       => /\ executeScript.state = "rejected"
          /\ executeScript.error.diagnostic # <<>>
  /\ executeScript.state = "rejected"
       => /\ executeScript.output = <<>>
          /\ caller # "resolved"
          /\ parsed = Null

\* the process wrote an error, exited 1 and the promise is rejected with it
C16_Witness ==
  /\ Closed
  /\ exitCode = 1
  /\ executeScript.state = "rejected"
  /\ executeScript.error.diagnostic = <<"Write-Error: Error processing">>
  /\ caller = "rejected"

----------------------------------------------------------------------------
(* The executor: the detection of the executable and the start of the      *)
(* process.  scriptPath and args are those of the calls of executeScript.  *)

ArgPool ==
  { Flag("ModuleFile"), <<"Module.psm1">>, <<"My", " ", "Module.psm1">>,
    Flag("UICulture"), <<"fr-FR">>, <<"-", "File", "Name">>, <<"-", "file">> }

RECURSIVE SeqsUpTo(_, _)
SeqsUpTo(S, n) ==
  IF n = 0 THEN {<<>>}
  ELSE SeqsUpTo(S, n - 1) \cup
         { Append(q, x) : q \in { r \in SeqsUpTo(S, n - 1) : Len(r) = n - 1 }, x \in S }

editorState == <<inputVars, scriptVars, streamVars, executorVars, editorVars>>

\* DetectPowerShellExecutable that never looks at the recorded executable
DetectPowerShellExecutableUncached(d) ==
  /\ detections[d].stage = "idle"
  /\ detections' = [detections EXCEPT ![d].stage = "testing"]
  /\ UNCHANGED <<editorState, powershellExecutable, spawnVars, settingVars, logVars, errors, lifeVars>>

(* detectPowerShellExecutable up to its first await: the recorded          *)
(* executable is returned at once, otherwise the tests begin.              *)
DetectPowerShellExecutable(d) ==
  /\ detections[d].stage = "idle"
  /\ detections' =
       IF powershellExecutable # ""
       THEN [detections EXCEPT ![d].stage = "done", ![d].result = powershellExecutable]
       ELSE [detections EXCEPT ![d].stage = "testing"]
  /\ UNCHANGED <<editorState, powershellExecutable, spawnVars, settingVars, logVars, errors, lifeVars>>

(* await testExecutable(executable) settles: on success the executable is  *)
(* recorded and returned, on failure the next one is tried, and after the  *)
(* last one the error is thrown.                                           *)
TestExecutable(d) ==
  /\ detections[d].stage = "testing"
  /\ \E ok \in BOOLEAN :
       LET executable == ExecutablesToTry[detections[d].next]
           tests == Append(detections[d].tests, [executable |-> executable, ok |-> ok])
       IN IF ok
          THEN /\ powershellExecutable' = executable
               /\ detections' = [detections EXCEPT ![d].stage = "done",
                                                    ![d].tests = tests,
                                                    ![d].result = executable]
          ELSE /\ UNCHANGED powershellExecutable
               /\ detections' =
                    IF detections[d].next = Len(ExecutablesToTry)
                    THEN [detections EXCEPT ![d].stage = "done", ![d].tests = tests,
                                            ![d].result = NoExecutableFound]
                    ELSE [detections EXCEPT ![d].tests = tests,
                                            ![d].next = detections[d].next + 1]
  /\ UNCHANGED <<editorState, spawnVars, settingVars, logVars, errors, lifeVars>>

(* executeScript after await detectPowerShellExecutable: the error goes to *)
(* the caller, otherwise the process is started through the shell.         *)
StartProcess(d) ==
  /\ detections[d].stage = "done"
  /\ detections' = [detections EXCEPT ![d] = IdleDetection]
  /\ spawned' =
       IF detections[d].result = NoExecutableFound THEN spawned
       ELSE [executable |-> detections[d].result,
             pwshArguments |-> PwshArguments(scriptPath, args),
             argv |-> ShellWords(PwshArguments(scriptPath, args))]
  /\ UNCHANGED <<editorState, powershellExecutable, scriptPath, args, settingVars, logVars, errors, lifeVars>>

NextExecutor ==
  \/ \E d \in 1..MaxDetections : DetectPowerShellExecutable(d)
  \/ \E d \in 1..MaxDetections : TestExecutable(d)
  \/ \E d \in 1..MaxDetections : StartProcess(d)

InitExecutor ==
  /\ resolvedPath = ModuleFile
  /\ scriptBlock = <<>>
  /\ fileSystem = {}
  /\ UICulture = Null
  /\ ProcessInit
  /\ EditorInit
  /\ powershellExecutable = ""
  /\ detections = [d \in 1..MaxDetections |-> IdleDetection]
  /\ scriptPath \in {<<>>, ScriptPath}
  /\ args \in SeqsUpTo(ArgPool, MaxArgs)
  /\ spawned = NotSpawned
  /\ enableDecorations = TRUE
  /\ LoggerInit
  /\ errors = <<>>
  /\ TimerInit
  /\ ManagerInit
  /\ InlineInit
  /\ HintInit

SpecExecutor == InitExecutor /\ [][NextExecutor]_vars

\* detection d has settled after testing
Detected(d) == detections[d].stage = "done" /\ detections[d].tests # <<>>

Passed(d, executable) ==
  \E k \in 1..Len(detections[d].tests) :
    detections[d].tests[k] = [executable |-> executable, ok |-> TRUE]

Failed(d, executable) ==
  \E k \in 1..Len(detections[d].tests) :
    detections[d].tests[k] = [executable |-> executable, ok |-> FALSE]

(* C22: a detection that tests begins with pwsh; it returns pwsh when the  *)
(* test of pwsh succeeds, powershell exactly when the test of pwsh fails   *)
(* and that of powershell succeeds, and it fails with 'No PowerShell       *)
(* executable found' exactly when both tests fail.                         *)
C22_PwshBeforePowershell ==
  \A d \in 1..MaxDetections :
    Detected(d) =>
      /\ detections[d].tests[1].executable = "pwsh"
      /\ Passed(d, "pwsh") => detections[d].result = "pwsh"
      /\ detections[d].result = "powershell"
           <=> Failed(d, "pwsh") /\ Passed(d, "powershell")
      /\ detections[d].result = NoExecutableFound
           <=> Failed(d, "pwsh") /\ Failed(d, "powershell")

C22_Witness ==
  \E d \in 1..MaxDetections :
    /\ Detected(d)
    /\ detections[d].result = "powershell"
    /\ Len(detections[d].tests) = 2

\* detection d is called in this step
Called(d) == detections[d].stage = "idle" /\ detections'[d].stage # "idle"

\* detection d fails in this step
Fails(d) ==
  detections[d].stage = "testing" /\ detections'[d].result = NoExecutableFound

Kept == { i \in 1..Len(args) : IsAllowedArg(args[i]) }

\* the j-th of them
NthKept(j) == CHOOSE i \in Kept : Cardinality({ k \in Kept : k < i }) = j - 1

\* the argument list of the claim
FlagsFileAndAllowedArgs ==
  FixedFlags
    \o (IF scriptPath = <<>> THEN <<>> ELSE <<Flag("File"), scriptPath>>)
    \o [j \in 1..Cardinality(Kept) |-> args[NthKept(j)]]

\* the list given to spawn is the list of the claim
SpawnArgumentsAsBuilt ==
  spawned.executable # "" => spawned.pwshArguments = FlagsFileAndAllowedArgs

(* C24: the arguments the process is started with are the fixed flags,     *)
(* -File and the script when there is one, and the elements of args that   *)
(* do not begin with '-' or begin with an allowed prefix, in their order,  *)
(* and nothing else.                                                       *)
C24_ProcessReceivesAllowedArgs ==
  spawned.executable # "" => spawned.argv = FlagsFileAndAllowedArgs

----------------------------------------------------------------------------
(* The decoration provider on the outcomes of the extractor.                *)

\* call i of getLocalizationData returns in this step
Returns(i) == running[i].stage # "idle" /\ running'[i].stage = "idle"

\* no module was found, the run failed, or the mapping has no keys
EmptyOrFailed(i) ==
  \/ running[i].stage = "finding"
  \/ ~running[i].ok
  \/ DOMAIN running[i].value = {}

\* what logger.warn / logger.error wrote for a call without an object
DiagnosticOf(i) ==
  IF running[i].stage = "finding" THEN "No module found for file"
  ELSE "Failed to get localization data"

(* C17: when a call of getLocalizationData ends without a module, with a   *)
(* failed run (non-zero exit, process not started, output that is no JSON) *)
(* or with a mapping without keys, the decorations of the editor become    *)
(* the empty list, no message is shown to the user, and the diagnostic of  *)
(* a call without an object is what the log holds.                         *)
C17_EmptyDecorationsOnFailure ==
  [][\A i \in 1..MaxRunning :
       Returns(i) /\ EmptyOrFailed(i)
         => /\ decorations'.kind = "empty"
            /\ shown' = shown
            /\ (running[i].stage = "finding" \/ ~running[i].ok
                  => logged' = DiagnosticOf(i))]_vars

C17_Witness ==
  /\ decorations.kind = "empty"
  /\ logged = "Failed to get localization data"
  /\ shown = ""
  /\ \A i \in 1..MaxRunning : running[i].stage = "idle"

----------------------------------------------------------------------------
(* The cache and the file watchers.                                        *)

\* the watcher of the module files handles a change event in this step
Psm1ChangeHandled == "psm1" \in events /\ "psm1" \notin events'

(* C18: once the change event of the module file is handled, the cache     *)
(* holds no data for the documents of the module, so that the next update  *)
(* of the decorations runs the extractor instead of returning what was     *)
(* cached.                                                                 *)
C18_ModuleChangeDropsCachedData ==
  [][Psm1ChangeHandled => DocumentDirectory \notin DOMAIN localizationCache']_vars

\* every change event is handled, no update is scheduled, no call under way
Quiescent ==
  /\ events = {}
  /\ ~timeout
  /\ \A i \in 1..MaxRunning : running[i].stage = "idle"

\* the watcher of the data files handles a change event in this step
Psd1ChangeHandled == "psd1" \in events /\ "psd1" \notin events'

\* the handler of the event leaves an empty cache and a scheduled update
CacheEmptyAndUpdateScheduled ==
  [][Psd1ChangeHandled => localizationCache' = EmptyCache /\ timeout']_vars

(* C19: after the change events of the data files, the values displayed    *)
(* come from a run of the extractor that read the data files as they are   *)
(* now: once the scheduled updates are done, the decorations are not those *)
(* of an earlier revision of the files.                                    *)
C19_DisplayedValuesFromNewRun ==
  Quiescent /\ revision > 0 /\ decorations.kind = "hints"
    => decorations.revision = revision

----------------------------------------------------------------------------
(* The UI culture.                                                         *)

\* handleSetUICulture goes on after await setUICulture in this step
SetUICultureReturns == writing.state = "stored" /\ writing'.state = "none"

\* the command found the culture already configured in this step
AlreadySet == shown' = "UI Culture is already set" /\ shown' # shown

(* C20: a step that gives the setting another culture, through the command *)
(* or through the settings, leaves the cache empty and an update           *)
(* scheduled; the command clears and schedules again once the culture is   *)
(* stored; the command called with the culture already configured writes   *)
(* no setting and leaves the cache and the timer as they are.              *)
C20_CultureChangeClearsCache ==
  [][/\ uiCulture' # uiCulture => localizationCache' = EmptyCache /\ timeout'
     /\ SetUICultureReturns => localizationCache' = EmptyCache /\ timeout'
     /\ AlreadySet => UNCHANGED <<uiCulture, writing, localizationCache, timeout>>]_vars

C20_Witness ==
  /\ uiCulture = <<"fr-FR">>
  /\ writing = [state |-> "stored", culture |-> <<"fr-FR">>]
  /\ decorations.kind = "hints"
  /\ localizationCache = EmptyCache
  /\ timeout

----------------------------------------------------------------------------
(* The culture of a run of the extractor.                                  *)

\* the parser process of call i was started and has run
Started(i) == running[i].stage = "read" /\ running[i].argv # <<>>

\* the culture the run of call i loads its data for
RunCulture(i) == EffectiveUICulture(BoundParameter(running[i].argv, "UICulture"))

(* C21: every run of the extractor that the decoration provider starts is  *)
(* given, as its -UICulture argument, the culture that was configured when *)
(* the provider asked for the data, and loads the data of that culture.    *)
C21_RunReceivesConfiguredCulture ==
  \A i \in 1..MaxRunning : Started(i) => RunCulture(i) = running[i].culture

----------------------------------------------------------------------------
(* Decorations switched off.                                               *)

\* the timer fires in this step
UpdateRuns == timeout /\ ~timeout'

(* C25: an update of the decorations that runs while enableDecorations is  *)
(* false sets the empty list and starts no call for the data; and once the *)
(* setting is switched to false, the decorations become empty, unless the  *)
(* setting is switched back before.                                        *)
C25_DisabledMeansNoDecorations ==
  /\ [][UpdateRuns /\ ~enableDecorations
          => decorations'.kind = "empty" /\ running' = running]_vars
  /\ (~enableDecorations /\ timeout) ~> (decorations.kind = "empty" \/ enableDecorations)

C25_Witness ==
  /\ ~enableDecorations
  /\ ~timeout
  /\ decorations.kind = "empty"
  /\ localizationCache = EmptyCache
  /\ \A i \in 1..MaxRunning : running[i].stage = "idle"

----------------------------------------------------------------------------
(* The letter case of the cmdlet name.                                     *)

\* the module with every call of the cmdlet spelled Import-LocalizedData
Canonical(ast) ==
  [i \in 1..Len(ast) |->
     IF StringEq(ast[i].name, "Import-LocalizedData")
     THEN [ast[i] EXCEPT !.name = "Import-LocalizedData"]
     ELSE ast[i]]

\* the decoration provider has looked for the module of the document
ModuleLookedFor ==
  \/ logged = "No module found for file"
  \/ \E i \in 1..MaxRunning : running[i].stage \in {"spawned", "read"}

(* C26: once the provider has looked for the module, the module was        *)
(* treated as the same module with the cmdlet spelled Import-LocalizedData *)
(* would be: the scan of the workspace detects it alike, the extractor     *)
(* finds the same number of calls, and the provider selected it alike.     *)
C26_NameMatchedInAnyCase ==
  resolvedPath # Null /\ ModuleLookedFor =>
    /\ HasImportLocalizedData(scriptBlock) = HasImportLocalizedData(Canonical(scriptBlock))
    /\ Len(ImportLocalizedDataCalls(scriptBlock))
         = Len(ImportLocalizedDataCalls(Canonical(scriptBlock)))
    /\ FindModuleForFile(resolvedPath, scriptBlock)
         = FindModuleForFile(resolvedPath, Canonical(scriptBlock))
    /\ logged = "No module found for file"
         => FindModuleForFile(resolvedPath, Canonical(scriptBlock)) = Null

----------------------------------------------------------------------------
(* The levels of the log.                                                  *)

\* the levels written under a configured level, by the order
\* error > warn > info > debug
WrittenUnder(configured) ==
  CASE configured = "error" -> {"error"}
    [] configured = "warn" -> {"error", "warn"}
    [] configured = "info" -> {"error", "warn", "info"}
    [] configured = "debug" -> {"error", "warn", "info", "debug"}

(* C27: a call of the logger appends to the output channel exactly when    *)
(* its level is among those written under the level configured at the     *)
(* call: errors under error, also warnings under warn, also infos under    *)
(* info, everything under debug.                                           *)
C27_WrittenIffAtOrAboveLevel ==
  logCall # NoLogCall =>
    (logCall.lines > 0 <=> logCall.level \in WrittenUnder(logCall.configured))

C27_Witness ==
  /\ logCall = [level |-> "info", configured |-> "warn", lines |-> 0]
  /\ outputChannel = <<"[WARN]">>

----------------------------------------------------------------------------
(* C28: a module file that cannot be parsed fails the whole extraction     *)
(* with the parser's diagnostic: the process ends with a non-zero exit     *)
(* code and the diagnostic on standard error, never with the no-call-sites *)
(* warning or a result.                                                    *)
Unparseable == errors # <<>>

DiagnosticReported == \E i \in 1..Len(stderr) : stderr[i] = errors[1]

C28_UnparseableFailsWithParseError ==
  Unparseable /\ pc = "exited" => exitCode # 0 /\ DiagnosticReported

----------------------------------------------------------------------------
\* the call the loop has processed, to the end or to a throw
Handled(n) ==
  /\ callIndex >= 1
  /\ \/ n < callIndex
     \/ n = callIndex /\ pc = "exited" /\ exitCode = 1

\* element k of a call is a bundle expansion with an assignment to resolve it
IsResolvedExpansion(call, k) ==
  /\ call.elements[k].kind = "VariableExpressionAst"
  /\ call.elements[k].splatted
  /\ LastAssignment(scriptBlock, call.elements[k].userPath, call.line) # 0

\* $splat after the first k elements of a call
RecordAfter(call, k) ==
  ForEachElement(scriptBlock, SubSeq(call.elements, 1, k), call.line,
                 [splat |-> EmptyHash, parameterName |-> Null, threw |-> FALSE])

(* C29: once a bundle expansion of a call has resolved to a bundle literal *)
(* the ArgumentRecord holds every key of the bundle at its top level with  *)
(* the value of that entry, whatever it held before, a value stored under  *)
(* one of the same keys included.                                          *)
C29_BundleEntriesMergedAtTopLevel ==
  \A n \in 1..Len(importLocalizedDataCalls) :
    Handled(n) =>
      LET call == importLocalizedDataCalls[n] IN
      \A k \in 1..Len(call.elements) :
        IsResolvedExpansion(call, k) =>
          LET bundle == GetVariableFromScriptBlock(scriptBlock, call.elements[k],
                                                   call.line).value
          IN /\ ~RecordAfter(call, k).threw
             /\ \A key \in DOMAIN bundle :
                  /\ key \in DOMAIN RecordAfter(call, k).splat
                  /\ RecordAfter(call, k).splat[key] = bundle[key]

----------------------------------------------------------------------------
IsImportLocalizedDataCall(node) ==
  node.type = "CommandAst" /\ StringEq(node.name, "Import-LocalizedData")

\* the place in the module of the n-th call FindAll returns: the statements
\* of the module are in source order, those of one line from left to right
NodeOfCall(n) ==
  CHOOSE i \in 1..Len(scriptBlock) :
    /\ IsImportLocalizedDataCall(scriptBlock[i])
    /\ Cardinality({j \in 1..i : IsImportLocalizedDataCall(scriptBlock[j])}) = n

(* C30: the assignment a reference of a processed call is resolved with    *)
(* stands before the reference in the source, never after it: not on a     *)
(* later line, and not on the line of the reference to its right.          *)
C30_LaterAssignmentNeverUsed ==
  \A n \in 1..Len(importLocalizedDataCalls) :
    Handled(n) =>
      LET call == importLocalizedDataCalls[n] IN
      \A k \in 1..Len(call.elements) :
        call.elements[k].kind = "VariableExpressionAst" =>
          LET lastAssignment == LastAssignment(scriptBlock, call.elements[k].userPath,
                                               call.line)
          IN lastAssignment = 0 \/ lastAssignment < NodeOfCall(n)

----------------------------------------------------------------------------
\* a call with a literal or a variable met before any parameter marker
IsPositional(call) ==
  \E k \in 1..Len(call.elements) :
    /\ call.elements[k].kind \in {"StringConstantExpressionAst", "VariableExpressionAst"}
    /\ ~call.elements[k].splatted
    /\ \A j \in 1..(k - 1) :
         call.elements[j].kind \notin {"CommandParameterAst", "ParameterAst"}

(* C31: a run on a module with a call whose first argument is positional   *)
(* ends without an error, and every well-formed call of the module has its *)
(* entry in the result, complete and correct.                              *)
C31_PositionalArgumentIsHarmless ==
  (pc = "exited" /\ \E m \in 1..Len(importLocalizedDataCalls) :
                      IsPositional(importLocalizedDataCalls[m]))
    => /\ exitCode = 0
       /\ \A g \in 1..Len(importLocalizedDataCalls) :
            IsWellFormed(importLocalizedDataCalls[g])
              => /\ JsonParse(stdout).ok
                 /\ BindingNameOf(importLocalizedDataCalls[g]) \in DOMAIN JsonParse(stdout).value
                 /\ JsonParse(stdout).value[BindingNameOf(importLocalizedDataCalls[g])]
                      = AloneResult(importLocalizedDataCalls[g])[BindingNameOf(importLocalizedDataCalls[g])]

----------------------------------------------------------------------------
TriggerTimes == {triggerLog[i] : i \in 1..Len(triggerLog)}

\* a trigger that no other trigger follows within the debounce time
IsBurstEnd(e) ==
  /\ e \in TriggerTimes
  /\ ~\E t \in TriggerTimes : e < t /\ t < e + DebounceMs

\* the debounce time of a trigger at e has passed and its timer, if due, has run
DebouncePassed(e) ==
  \/ clock > e + DebounceMs
  \/ clock = e + DebounceMs /\ DueTimers = {}

RunsAt(r) == Cardinality({i \in 1..Len(runLog) : runLog[i] = r})

(* C32: at most one timer is pending at any time; every run of             *)
(* updateDecorations starts 500 ms after the last trigger of a burst, and  *)
(* every burst, once 500 ms have passed since its last trigger, has        *)
(* started exactly one run.                                                *)
C32_OneTimerOneRunPerBurst ==
  /\ Cardinality(timers) <= 1
  /\ \A i \in 1..Len(runLog) : IsBurstEnd(runLog[i] - DebounceMs)
  /\ \A e \in TriggerTimes :
       IsBurstEnd(e) /\ DebouncePassed(e) => RunsAt(e + DebounceMs) = 1

\* a burst of three triggers at two or more times has started its run, and a
\* later burst its own
C32_Witness ==
  /\ Len(runLog) = 2
  /\ \E i, j, k \in 1..Len(triggerLog) :
       /\ i < j /\ j < k
       /\ triggerLog[i] < triggerLog[j]
       /\ triggerLog[k] < triggerLog[i] + 2 * DebounceMs
       /\ runLog[1] = triggerLog[k] + DebounceMs

----------------------------------------------------------------------------
\* the manager or the provider has something registered
Registered ==
  \/ subscriptions # {}
  \/ listeners.activeTextEditor > 0
  \/ listeners.textDocument > 0

(* C33: the listeners of the decoration provider, the configuration        *)
(* listener, the file watchers and the commands are registered only when a *)
(* PowerShell is available and initialize's scan found a module with an    *)
(* import call; an initialize that returned on a failed check has          *)
(* registered nothing.                                                     *)
C33_RegisteredOnlyAfterBothChecks ==
  /\ Registered => /\ available
                   /\ initialize.stage = "done"
                   /\ HasAnyModuleWithLocalization(workspace)
  /\ initialize.stage = "returned" => ~Registered
  /\ initialize.stage = "done" => subscriptions = AllSubscriptions

\* initialize has registered everything, the provider's listeners included
C33_Witness ==
  /\ initialize.stage = "done"
  /\ subscriptions = AllSubscriptions
  /\ listeners = [activeTextEditor |-> 1, textDocument |-> 1]
  /\ timeout

----------------------------------------------------------------------------
(* C34: after initialize and any configuration changes and creations of    *)
(* module files, the decoration provider has at most one listener of       *)
(* active-editor changes and at most one listener of document changes.     *)
C34_AtMostOneListenerOfEachEvent ==
  initialize.stage = "done"
    => /\ listeners.activeTextEditor <= 1
       /\ listeners.textDocument <= 1

----------------------------------------------------------------------------
\* every change of the data files has been followed by its clearCache, and
\* no call of getLocalizationData is under way
InvalidatedAndSettled ==
  /\ revision > 0
  /\ events = {}
  /\ \A i \in 1..MaxRunning : running[i].stage = "idle"

(* C35: once the cache has been invalidated and the runs in flight have    *)
(* completed, the cache holds no result of a run started before the        *)
(* invalidation: an entry it holds was read from the data files as they    *)
(* were at the invalidation, not from an earlier revision of them.         *)
C35_NoStaleEntryAfterInvalidation ==
  InvalidatedAndSettled /\ DocumentDirectory \in DOMAIN localizationCache
    => localizationCache[DocumentDirectory].revision = revision

----------------------------------------------------------------------------
(* C36: once the decoration provider is disposed no timer is pending and   *)
(* no decorations are set on an editor, whatever was under way when        *)
(* dispose was called and whatever calls clearCache afterwards.            *)
C36_NothingAfterDispose ==
  disposed => ~timeout /\ decorations.kind # "hints"

----------------------------------------------------------------------------
\* a value is the object of a run of the extractor that succeeded
IsResultOf(value, outcome) == outcome.ok /\ value = outcome.value

ReturnedByRun(value) ==
  /\ resolvedPath # Null
  /\ IsResultOf(value, ParseLocalizationDataOf(resolvedPath, scriptBlock, fileSystem))

\* a call of the decoration provider ends in this step on a failed run, or
\* on a lookup that found no module
EndsWithoutData ==
  \E i \in 1..MaxRunning :
    /\ running'[i].stage = "idle"
    /\ \/ running[i].stage = "read" /\ ~running[i].ok
       \/ running[i].stage = "finding"

\* the inline provider's call of this step found no module, or its run failed
InlineEndsWithoutData == inlineCall'.n # inlineCall.n /\ ~inlineCall'.ok

\* the timer fires in this step with decorations enabled and no entry cached
RequestWithoutEntry ==
  /\ timeout /\ ~timeout'
  /\ enableDecorations
  /\ DocumentDirectory \notin DOMAIN localizationCache

(* C37: each cache maps a key only to an object that a run of the          *)
(* extractor returned successfully; a failed run and a lookup without a    *)
(* module leave the cache as it was, and a request for a key without an    *)
(* entry starts a new run.                                                 *)
C37_CacheHoldsOnlySuccessfulRuns ==
  /\ [](\A k \in DOMAIN localizationCache : ReturnedByRun(localizationCache[k].value))
  /\ [](\A k \in DOMAIN inlineCache : ReturnedByRun(inlineCache[k].value))
  /\ [][/\ EndsWithoutData => localizationCache' = localizationCache
        /\ InlineEndsWithoutData => inlineCache' = inlineCache
        /\ RequestWithoutEntry
             => \E i \in 1..MaxRunning :
                  running[i].stage = "idle" /\ running'[i].stage = "finding"
        /\ (inlineCall'.n # inlineCall.n /\ DocumentPath \notin DOMAIN inlineCache
              /\ resolvedPath # Null) => inlineCall'.ran]_vars

\* after a failed run of each provider, with nothing cached, each has made
\* a new request that runs the extractor again
C37_Witness ==
  /\ logged = "Failed to get localization data"
  /\ localizationCache = EmptyCache
  /\ \E i \in 1..MaxRunning : running[i].stage = "finding"
  /\ inlineCall.n >= 2
  /\ inlineCall.ran /\ inlineCall.ok
  /\ DocumentPath \in DOMAIN inlineCache

----------------------------------------------------------------------------
\* a hint stands at a token whose complete name is the binding annotated from
AtTokenOfThatName(hint) == document[hint.line].name = hint.varName

(* C38: every decoration and every inline value is made for a variable     *)
(* token whose complete name equals the binding name its data is taken     *)
(* from; a token whose name only starts with a binding name gets no hint   *)
(* from that binding.                                                      *)
C38_HintOnlyForCompleteName ==
  /\ \A d \in 1..Len(hints.decorations) : AtTokenOfThatName(hints.decorations[d])
  /\ \A v \in 1..Len(hints.inlineValues) : AtTokenOfThatName(hints.inlineValues[v])

====
